---- MODULE Spec2Model ----
(***************************************************************************)
(* FlashPaper persistence engine: the Storage contract and its two         *)
(* backends (internal/storage/database.go, internal/storage/filesystem.go) *)
(* with the record model of internal/model/paste.go.                       *)
(*                                                                         *)
(* Every backend method runs under the instance's coarse sync.RWMutex, so  *)
(* one locked section is one step.  ReadPaste on an expired record and     *)
(* Purge release the lock between their sections; they take several steps  *)
(* and other callers interleave between them.                              *)
(***************************************************************************)
EXTENDS Integers, Sequences, FiniteSets, Bags, TLC

VARIABLES
    backend,   \* cfg.Model.Class of the instance: "Database" or "Filesystem"
    univ,      \* which inputs the callers draw from: "pastes", "contents",
               \* "discussion" and so on, one for every specification
    handler,   \* the Handler that serves the requests: its field salt, empty
               \* while no Handler has been built, and config.Main.Discussion
    mu,        \* the instance's sync.RWMutex: the callers that hold it for
               \* reading and the caller that has locked it for writing;
               \* unlocked between two steps wherever one locked section is
               \* one step
    store,     \* what the backend holds: paste rows/files, comment rows/files
    now,       \* time.Now().Unix()
    calls,     \* the calls that are between two locked sections: a bag of
               \* their locals (ReadPaste of an expired record, Purge)
    last,      \* the call that returned in the latest step, with what it
               \* returned; NoCall when no call returned in that step
    hist       \* history: what each stored paste was created from, and
               \* whether a ReadPaste has reported it as expired, and how
               \* many read requests it was served to (counted up to 2);
               \* the value of the latest SetValue that returned nil, for
               \* every (namespace, key)

vars == <<backend, univ, handler, mu, store, now, calls, last, hist>>

(***************************************************************************)
(* Bounds and input sets                                                   *)
(***************************************************************************)
MaxTime == 3          \* the clock runs over 1..MaxTime
MaxCalls == 2         \* at most this many calls between two locked sections
MaxComments == 2      \* at most this many comments stored at once

Ids == IF univ \in {"pastes", "purge", "concurrent", "retry", "frame", "equiv"} THEN {1, 2} ELSE {1}       \* paste identifiers
CommentIds == IF univ = "discussion" THEN {11, 12} ELSE {11}   \* comment identifiers
Backends == {"Database", "Filesystem"}
BatchSizes == IF univ \in {"purge", "equiv"} THEN {0, 1, 2} ELSE {2}

\* errors of internal/model/errors.go, and one name for every wrapped I/O error
ErrNone == "nil"
ErrPasteNotFound == "ErrPasteNotFound"
ErrPasteExpired == "ErrPasteExpired"
ErrPasteExists == "ErrPasteExists"
ErrCommentExists == "ErrCommentExists"
ErrStorage == "StorageFailure"

(***************************************************************************)
(* encoding/json as the backends use it                                    *)
(***************************************************************************)
\* A string is a sequence of characters.  json.Marshal writes it between
\* quotes, with '<' written as a six-character unicode escape (escapeHTML is on).
RECURSIVE EscapeJSON(_)
EscapeJSON(s) ==
    IF s = <<>> THEN <<>>
    ELSE (IF Head(s) = "<" THEN <<"\\u003c">> ELSE <<Head(s)>>) \o EscapeJSON(Tail(s))

RECURSIVE UnescapeJSON(_)
UnescapeJSON(s) ==
    IF s = <<>> THEN <<>>
    ELSE (IF Head(s) = "\\u003c" THEN <<"<">> ELSE <<Head(s)>>) \o UnescapeJSON(Tail(s))

MarshalString(s) == <<"\"">> \o EscapeJSON(s) \o <<"\"">>
UnmarshalString(j) == UnescapeJSON(SubSeq(j, 2, Len(j) - 1))

\* json.RawMessage inside a struct: the encoder copies the raw bytes through
\* compact(), which drops the insignificant whitespace outside string literals.
RECURSIVE CompactFrom(_, _)
CompactFrom(raw, inStr) ==
    IF raw = <<>> THEN <<>>
    ELSE LET c == Head(raw) IN
         IF c = "\"" THEN <<c>> \o CompactFrom(Tail(raw), ~inStr)
         ELSE IF c = " " /\ ~inStr THEN CompactFrom(Tail(raw), inStr)
         ELSE <<c>> \o CompactFrom(Tail(raw), inStr)

MarshalRawMessage(raw) == CompactFrom(raw, FALSE)

\* A JSON object is a function from the keys that were written to their
\* encoded values; a field tagged omitempty is left out when it is zero, and
\* a key that is absent leaves the zero value in the decoded struct.
Field(k, v) == [x \in {k} |-> v]
OmitEmpty(k, v, zero) == IF v = zero THEN <<>> ELSE Field(k, v)
Get(o, k, zero) == IF k \in DOMAIN o THEN o[k] ELSE zero
GetString(o, k) == IF k \in DOMAIN o THEN UnmarshalString(o[k]) ELSE <<>>

(***************************************************************************)
(* internal/model/paste.go                                                 *)
(***************************************************************************)
\* PasteMeta with its struct tags: Salt is tagged json:"-" and is never written.
MarshalPasteMeta(m) ==
    OmitEmpty("postdate", m.PostDate, 0)
    @@ OmitEmpty("expire_date", m.ExpireDate, 0)
    @@ OmitEmpty("expire", m.Expire, "")
    @@ OmitEmpty("burnafterreading", m.BurnAfterReading, FALSE)
    @@ OmitEmpty("opendiscussion", m.OpenDiscussion, FALSE)
    @@ OmitEmpty("formatter", m.Formatter, "")
    @@ OmitEmpty("time_to_live", m.TimeToLive, 0)

UnmarshalPasteMeta(j) ==
    [PostDate |-> Get(j, "postdate", 0),
     ExpireDate |-> Get(j, "expire_date", 0),
     Expire |-> Get(j, "expire", ""),
     BurnAfterReading |-> Get(j, "burnafterreading", FALSE),
     OpenDiscussion |-> Get(j, "opendiscussion", FALSE),
     Formatter |-> Get(j, "formatter", ""),
     Salt |-> "",
     TimeToLive |-> Get(j, "time_to_live", 0)]

\* an == in place of the >
IsExpiredAtInstant(p, t) ==
    IF p.Meta.ExpireDate = 0 THEN FALSE ELSE t = p.Meta.ExpireDate

\* Paste.IsExpired at clock value t
IsExpired(p, t) ==
    IF p.Meta.ExpireDate = 0 THEN FALSE ELSE t > p.Meta.ExpireDate

FormatterPlainText == "plaintext"
FormatterSyntaxHighlight == "syntaxhighlighting"
FormatterMarkdown == "markdown"

ErrPasteTooLarge == "ErrPasteTooLarge"
ErrInvalidFormatter == "ErrInvalidFormatter"
ErrBurnAfterReadingWithDiscussion == "ErrBurnAfterReadingWithDiscussion"

\* NewPaste() at clock value t
NewPaste(t) ==
    [Data |-> <<>>, AttachmentName |-> <<>>, Attachment |-> <<>>, AData |-> <<>>,
     Version |-> 2,
     Meta |-> [PostDate |-> t, ExpireDate |-> 0, Expire |-> "",
               BurnAfterReading |-> FALSE, OpenDiscussion |-> FALSE,
               Formatter |-> FormatterPlainText, Salt |-> <<>>, TimeToLive |-> 0]]

\* Validate without the test of the two flags
ValidateFlagsUnchecked(p) ==
    IF p.Data = <<>> THEN ErrPasteTooLarge
    ELSE IF p.Meta.Formatter # ""
            /\ p.Meta.Formatter \notin {FormatterPlainText, FormatterSyntaxHighlight,
                                        FormatterMarkdown}
    THEN ErrInvalidFormatter
    ELSE ErrNone

\* Paste.Validate
Validate(p) ==
    IF p.Data = <<>> THEN ErrPasteTooLarge
    ELSE IF p.Meta.Formatter # ""
            /\ p.Meta.Formatter \notin {FormatterPlainText, FormatterSyntaxHighlight,
                                        FormatterMarkdown}
    THEN ErrInvalidFormatter
    ELSE IF p.Meta.BurnAfterReading /\ p.Meta.OpenDiscussion
    THEN ErrBurnAfterReadingWithDiscussion
    ELSE ErrNone

\* Paste.SetExpiration(d) at clock value t
SetExpiration(p, d, t) ==
    [p EXCEPT !.Meta.ExpireDate = IF d = 0 THEN 0 ELSE t + d]

\* json.Unmarshal of the text a into []interface{}: the texts of the elements
\* of the array, split at the commas of its top level outside string literals
\* (i is the position, depth the nesting, cur the element read so far)
RECURSIVE Elements(_, _, _, _, _)
Elements(a, i, depth, inStr, cur) ==
    IF i > Len(a) THEN <<>>
    ELSE LET c == a[i] IN
         IF inStr THEN Elements(a, i + 1, depth, c # "\"", Append(cur, c))
         ELSE IF c = "\"" THEN Elements(a, i + 1, depth, TRUE, Append(cur, c))
         ELSE IF c = "[" THEN
              IF depth = 0 THEN Elements(a, i + 1, 1, FALSE, <<>>)
              ELSE Elements(a, i + 1, depth + 1, FALSE, Append(cur, c))
         ELSE IF c = "]" THEN
              IF depth = 1 THEN (IF cur = <<>> THEN <<>> ELSE <<cur>>)
              ELSE Elements(a, i + 1, depth - 1, FALSE, Append(cur, c))
         ELSE IF c = "," /\ depth = 1 THEN <<cur>> \o Elements(a, i + 1, 1, FALSE, <<>>)
         ELSE Elements(a, i + 1, depth, FALSE, Append(cur, c))

\* the dynamic type of an element: a string literal, a number (float64) or other
IsStringElement(el) == Len(el) >= 2 /\ el[1] = "\"" /\ el[Len(el)] = "\""
IsNumberElement(el) ==
    el # <<>> /\ \A i \in DOMAIN el : el[i] \in {"0", "1", "2", "3", "4", "5", "6", "7", "8", "9"}

\* the formatter names are written with their first letter in the array text
FormatterName(el) ==
    LET str == UnmarshalString(el) IN
    IF str = <<"p">> THEN FormatterPlainText
    ELSE IF str = <<"s">> THEN FormatterSyntaxHighlight
    ELSE IF str = <<"m">> THEN FormatterMarkdown
    ELSE IF str = <<>> THEN ""
    ELSE "other"

\* Paste.ParseAData: formatter, opendiscussion and burnafterreading are taken
\* from positions 2, 3 and 4 of the array when they have the expected type
ParseAData(p) ==
    IF p.AData = <<>> \/ p.AData[1] # "[" THEN p
    ELSE LET adata == Elements(p.AData, 1, 0, FALSE, <<>>) IN
         IF Len(adata) < 4 THEN p
         ELSE [p EXCEPT
                 !.Meta.Formatter =
                     IF IsStringElement(adata[2]) THEN FormatterName(adata[2]) ELSE @,
                 !.Meta.OpenDiscussion =
                     IF IsNumberElement(adata[3]) THEN adata[3] = <<"1">> ELSE @,
                 !.Meta.BurnAfterReading =
                     IF IsNumberElement(adata[4]) THEN adata[4] = <<"1">> ELSE @]

(***************************************************************************)
(* internal/util/crypto.go                                                 *)
(*                                                                         *)
(* A string is a sequence of characters, a key a sequence of bytes.        *)
(* SHA-256 is taken as collision-free: the digest of HMAC-SHA256 is the    *)
(* pair of the key block and the message, and hex.EncodeToString of it is  *)
(* [hex |-> that pair]; the empty string is [hex |-> <<>>].                *)
(***************************************************************************)
\* the standard alphabet, as far as the salts used here need it
Base64Index == [A |-> 0, B |-> 1]
Base64Chars == DOMAIN Base64Index

StripNewlines(str) == SelectSeq(str, LAMBDA c : c \notin {"\n", "\r"})

\* the bytes of one quantum of four characters; 'final' tells whether it is the
\* last quantum, where padding may stand.  The decoder is not strict: the
\* bits of the last character that do not fill a byte are dropped unchecked.
DecodeQuantum(q, final) ==
    LET v(i) == Base64Index[q[i]] IN
    IF \A i \in 1..4 : q[i] \in Base64Chars
    THEN [err |-> FALSE,
          bytes |-> <<v(1) * 4 + v(2) \div 16,
                      (v(2) % 16) * 16 + v(3) \div 4,
                      (v(3) % 4) * 64 + v(4)>>]
    ELSE IF final /\ q[1] \in Base64Chars /\ q[2] \in Base64Chars
                  /\ q[3] \in Base64Chars /\ q[4] = "="
    THEN [err |-> FALSE,
          bytes |-> <<v(1) * 4 + v(2) \div 16, (v(2) % 16) * 16 + v(3) \div 4>>]
    ELSE IF final /\ q[1] \in Base64Chars /\ q[2] \in Base64Chars
                  /\ q[3] = "=" /\ q[4] = "="
    THEN [err |-> FALSE, bytes |-> <<v(1) * 4 + v(2) \div 16>>]
    ELSE [err |-> TRUE, bytes |-> <<>>]

\* base64.StdEncoding.DecodeString: line breaks are skipped, the rest is read
\* in quanta of four characters
RECURSIVE DecodeQuanta(_)
DecodeQuanta(str) ==
    IF str = <<>> THEN [err |-> FALSE, bytes |-> <<>>]
    ELSE IF Len(str) < 4 THEN [err |-> TRUE, bytes |-> <<>>]
    ELSE LET q == DecodeQuantum(SubSeq(str, 1, 4), Len(str) = 4)
             rest == DecodeQuanta(SubSeq(str, 5, Len(str)))
         IN  IF q.err \/ rest.err THEN [err |-> TRUE, bytes |-> <<>>]
             ELSE [err |-> FALSE, bytes |-> q.bytes \o rest.bytes]

DecodeString(str) == DecodeQuanta(StripNewlines(str))

\* hmac.New fills a key shorter than the hash's block with zero bytes, so keys
\* that differ only in zero bytes at the end are one key block (every key
\* here is shorter than a block)
RECURSIVE HmacKey(_)
HmacKey(key) ==
    IF key # <<>> /\ key[Len(key)] = 0 THEN HmacKey(SubSeq(key, 1, Len(key) - 1)) ELSE key

EmptyToken == [hex |-> <<>>]

\* GenerateDeleteToken(pasteID, salt): the token and whether an error is returned
GenerateDeleteToken(pasteID, salt) ==
    LET saltBytes == DecodeString(salt) IN
    IF saltBytes.err THEN [token |-> EmptyToken, err |-> TRUE]
    ELSE [token |-> [hex |-> <<HmacKey(saltBytes.bytes), pasteID>>], err |-> FALSE]

\* a validation that leaves the paste id out of the comparison
ValidateForAnyId(providedToken, pasteID, salt) ==
    LET expectedToken == GenerateDeleteToken(pasteID, salt) IN
    IF expectedToken.err THEN FALSE
    ELSE providedToken.hex # <<>> /\ providedToken.hex[1] = expectedToken.token.hex[1]

\* ValidateDeleteToken(providedToken, pasteID, salt); subtle.ConstantTimeCompare
\* is 1 exactly for equal byte strings
ValidateDeleteToken(providedToken, pasteID, salt) ==
    LET expectedToken == GenerateDeleteToken(pasteID, salt) IN
    IF expectedToken.err THEN FALSE
    ELSE providedToken = expectedToken.token

(***************************************************************************)
(* The stored state                                                        *)
(*   store.paste    id -> paste row (Database) or paste file (Filesystem)  *)
(*   store.comment  Database: comment.dataid -> row                        *)
(*                  Filesystem: <<pasteID, commentID, parentID>> -> file,  *)
(*                  the file {commentID}.{parentID}.json of the paste's    *)
(*                  .discussion directory                                  *)
(*   store.config   Database: config.id -> value                           *)
(*                  Filesystem: file name in _config -> content            *)
(***************************************************************************)
EmptyStore == [paste |-> <<>>, comment |-> <<>>, config |-> <<>>]

Restrict(f, S) == [x \in S |-> f[x]]
Ret(st, err, val) == [store |-> st, err |-> err, val |-> val]
NoVal == [none |-> TRUE]

\* the struct both backends serialize a paste's content into
MarshalPasteContent(paste) ==
    Field("data", MarshalString(paste.Data))
    @@ OmitEmpty("attachmentname", MarshalString(paste.AttachmentName), MarshalString(<<>>))
    @@ OmitEmpty("attachment", MarshalString(paste.Attachment), MarshalString(<<>>))
    @@ OmitEmpty("adata", MarshalRawMessage(paste.AData), <<>>)
    @@ Field("v", paste.Version)

UnmarshalPaste(id, j, meta) ==
    [ID |-> id,
     Data |-> GetString(j, "data"),
     AttachmentName |-> GetString(j, "attachmentname"),
     Attachment |-> GetString(j, "attachment"),
     AData |-> Get(j, "adata", <<>>),
     Version |-> Get(j, "v", 0),
     Meta |-> meta]

(***************************************************************************)
(* internal/storage/database.go                                            *)
(***************************************************************************)
\* an INSERT OR REPLACE in place of the INSERT
DbCreatePasteReplace(st, id, paste) ==
    LET row == [data |-> MarshalPasteContent(paste),
                expiredate |-> paste.Meta.ExpireDate,
                meta |-> MarshalPasteMeta(paste.Meta)]
    IN  Ret([st EXCEPT !.paste = (id :> row) @@ st.paste], ErrNone, NoVal)

\* INSERT INTO paste: the primary key dataid rejects a second row for the id
DbCreatePaste(st, id, paste) ==
    LET row == [data |-> MarshalPasteContent(paste),
                expiredate |-> paste.Meta.ExpireDate,
                meta |-> MarshalPasteMeta(paste.Meta)]
    IN  IF id \in DOMAIN st.paste
        THEN Ret(st, ErrPasteExists, NoVal)
        ELSE Ret([st EXCEPT !.paste = (id :> row) @@ st.paste], ErrNone, NoVal)

\* the paste a SELECT of the row decodes to; expiredate comes from the column
DbDecodePaste(id, row) ==
    UnmarshalPaste(id, row.data,
                   [UnmarshalPasteMeta(row.meta) EXCEPT !.ExpireDate = row.expiredate])

\* the transaction of DeletePaste; fault names the statement that fails
DbDeleteFaults == {"none", "begin", "comments", "paste", "rows", "commit"}

\* what the statements of the transaction did stays in the tables
NoRollback(before, tx) == tx

\* the deferred tx.Rollback() of a transaction that was not committed
Rollback(before, tx) == before

\* only the DELETE FROM paste
DbDeletePasteNoCascade(st, id, fault) ==
    IF fault # "none" THEN Ret(st, ErrStorage, NoVal)
    ELSE IF id \notin DOMAIN st.paste THEN Ret(st, ErrPasteNotFound, NoVal)
    ELSE Ret([st EXCEPT !.paste = Restrict(st.paste, DOMAIN st.paste \ {id})], ErrNone, NoVal)

DbDeletePaste(st, id, fault) ==
    LET tx1 == [st EXCEPT !.comment =
                    Restrict(st.comment, {c \in DOMAIN st.comment : st.comment[c].pasteid # id})]
        tx2 == [tx1 EXCEPT !.paste = Restrict(tx1.paste, DOMAIN tx1.paste \ {id})]
        rowsAffected == IF id \in DOMAIN tx1.paste THEN 1 ELSE 0
    IN  IF fault = "begin" THEN Ret(st, ErrStorage, NoVal)
        ELSE IF fault = "comments" THEN Ret(Rollback(st, st), ErrStorage, NoVal)
        ELSE IF fault = "paste" THEN Ret(Rollback(st, tx1), ErrStorage, NoVal)
        ELSE IF fault = "rows" THEN Ret(Rollback(st, tx2), ErrStorage, NoVal)
        ELSE IF rowsAffected = 0 THEN Ret(Rollback(st, tx2), ErrPasteNotFound, NoVal)
        ELSE IF fault = "commit" THEN Ret(Rollback(st, tx2), ErrStorage, NoVal)
        ELSE Ret(tx2, ErrNone, NoVal)

DbPasteExists(st, id) == id \in DOMAIN st.paste

(***************************************************************************)
(* internal/storage/filesystem.go                                          *)
(***************************************************************************)
\* os.Stat of pastePath(id), then the file is written and renamed into place
\* a CreatePaste without the os.Stat test
FsCreatePasteOverwrite(st, id, paste) ==
    LET file == MarshalPasteContent(paste) @@ Field("meta", MarshalPasteMeta(paste.Meta))
    IN  Ret([st EXCEPT !.paste = (id :> file) @@ st.paste], ErrNone, NoVal)

FsCreatePaste(st, id, paste) ==
    LET file == MarshalPasteContent(paste) @@ Field("meta", MarshalPasteMeta(paste.Meta))
    IN  IF id \in DOMAIN st.paste
        THEN Ret(st, ErrPasteExists, NoVal)
        ELSE Ret([st EXCEPT !.paste = (id :> file) @@ st.paste], ErrNone, NoVal)

FsDecodePaste(id, file) == UnmarshalPaste(id, file, UnmarshalPasteMeta(file.meta))

\* the files of discussionDir(id)
FsDiscussion(st, id) == {k \in DOMAIN st.comment : k[1] = id}

\* fault names the call that fails; when os.RemoveAll fails it has removed
\* the files in 'removed', a proper subset of the directory
FsDeleteFaults == {"none", "removeall", "remove"}
FsDeletePaste(st, id, fault, removed) ==
    LET noDir == [st EXCEPT !.comment = Restrict(st.comment, DOMAIN st.comment \ FsDiscussion(st, id))]
        part == [st EXCEPT !.comment = Restrict(st.comment, DOMAIN st.comment \ removed)]
    IN  IF id \notin DOMAIN st.paste THEN Ret(st, ErrPasteNotFound, NoVal)
        ELSE IF fault = "removeall" THEN Ret(part, ErrStorage, NoVal)
        ELSE IF fault = "remove" THEN Ret(noDir, ErrStorage, NoVal)
        ELSE Ret([noDir EXCEPT !.paste = Restrict(st.paste, DOMAIN st.paste \ {id})], ErrNone, NoVal)

FsPasteExists(st, id) == id \in DOMAIN st.paste

(***************************************************************************)
(* Comments                                                                *)
(***************************************************************************)
\* the INSERT without the pasteExistsUnsafe check before it
DbCreateCommentNoCheck(st, pasteID, parentID, commentID, comment) ==
    LET row == [pasteid |-> pasteID,
                parentid |-> parentID,
                data |-> Field("data", MarshalString(comment.Data))
                         @@ OmitEmpty("adata", MarshalRawMessage(comment.AData), <<>>)
                         @@ Field("v", comment.Version),
                vizhash |-> comment.Vizhash,
                postdate |-> comment.Meta.PostDate]
    IN  IF commentID \in DOMAIN st.comment THEN Ret(st, ErrCommentExists, NoVal)
        ELSE Ret([st EXCEPT !.comment = (commentID :> row) @@ st.comment], ErrNone, NoVal)

\* INSERT INTO comment: dataid alone is the primary key of the table
DbCreateComment(st, pasteID, parentID, commentID, comment) ==
    LET row == [pasteid |-> pasteID,
                parentid |-> parentID,
                data |-> Field("data", MarshalString(comment.Data))
                         @@ OmitEmpty("adata", MarshalRawMessage(comment.AData), <<>>)
                         @@ Field("v", comment.Version),
                vizhash |-> comment.Vizhash,
                postdate |-> comment.Meta.PostDate]
    IN  IF ~DbPasteExists(st, pasteID) THEN Ret(st, ErrPasteNotFound, NoVal)
        ELSE IF commentID \in DOMAIN st.comment THEN Ret(st, ErrCommentExists, NoVal)
        ELSE Ret([st EXCEPT !.comment = (commentID :> row) @@ st.comment], ErrNone, NoVal)

DbDecodeComment(pasteID, commentID, row) ==
    [ID |-> commentID,
     PasteID |-> pasteID,
     ParentID |-> row.parentid,
     Data |-> GetString(row.data, "data"),
     AData |-> Get(row.data, "adata", <<>>),
     Version |-> Get(row.data, "v", 0),
     Vizhash |-> row.vizhash,
     Meta |-> [PostDate |-> row.postdate]]

\* SELECT ... WHERE pasteid = ?
DbCommentsOf(st, pasteID) ==
    {DbDecodeComment(pasteID, c, st.comment[c]) :
        c \in {d \in DOMAIN st.comment : st.comment[d].pasteid = pasteID}}

\* commentPath(pasteID, parentID, commentID) names the file
FsCommentPath(pasteID, parentID, commentID) == <<pasteID, commentID, parentID>>

FsCreateComment(st, pasteID, parentID, commentID, comment) ==
    LET path == FsCommentPath(pasteID, parentID, commentID)
        file == Field("data", MarshalString(comment.Data))
                @@ OmitEmpty("adata", MarshalRawMessage(comment.AData), <<>>)
                @@ Field("v", comment.Version)
                @@ OmitEmpty("vizhash", comment.Vizhash, "")
                @@ Field("postdate", comment.Meta.PostDate)
    IN  IF ~FsPasteExists(st, pasteID) THEN Ret(st, ErrPasteNotFound, NoVal)
        ELSE IF path \in DOMAIN st.comment THEN Ret(st, ErrCommentExists, NoVal)
        ELSE Ret([st EXCEPT !.comment = (path :> file) @@ st.comment], ErrNone, NoVal)

\* the file name is split into commentID and parentID
FsDecodeComment(path, file) ==
    [ID |-> path[2],
     PasteID |-> path[1],
     ParentID |-> path[3],
     Data |-> GetString(file, "data"),
     AData |-> Get(file, "adata", <<>>),
     Version |-> Get(file, "v", 0),
     Vizhash |-> Get(file, "vizhash", ""),
     Meta |-> [PostDate |-> Get(file, "postdate", 0)]]

FsCommentsOf(st, pasteID) ==
    {FsDecodeComment(k, st.comment[k]) : k \in FsDiscussion(st, pasteID)}

\* the comments in cs in the order the directory listing gives them
\* (Unsorted), and the orders their list can come back in: ORDER BY postdate
\* ASC in the database, sort.Slice on PostDate in the filesystem; neither
\* fixes the order of two comments with equal PostDate
Unsorted(cs) ==
    {q \in [1..Cardinality(cs) -> cs] : \A i, j \in DOMAIN q : i # j => q[i] # q[j]}

SortedByPostDate(cs) ==
    {q \in [1..Cardinality(cs) -> cs] :
        /\ \A i, j \in DOMAIN q : i # j => q[i] # q[j]
        /\ \A i, j \in DOMAIN q : i < j => q[i].Meta.PostDate <= q[j].Meta.PostDate}

DbReadComments(st, pasteID) == SortedByPostDate(DbCommentsOf(st, pasteID))
FsReadComments(st, pasteID) == SortedByPostDate(FsCommentsOf(st, pasteID))

(***************************************************************************)
(* Expiry scan                                                             *)
(***************************************************************************)
\* the sequences without repetition over S
RECURSIVE Orderings(_)
Orderings(S) ==
    IF S = {} THEN {<<>>}
    ELSE UNION {{<<x>> \o q : q \in Orderings(S \ {x})} : x \in S}

Min(a, b) == IF a < b THEN a ELSE b

\* SELECT dataid FROM paste WHERE expiredate > 0 AND expiredate < now LIMIT n:
\* any n of the matching rows, in any order
DbExpiredRows(st, t) ==
    {id \in DOMAIN st.paste : st.paste[id].expiredate > 0 /\ st.paste[id].expiredate < t}
DbGetExpiredPastes(st, t, batchSize) ==
    LET n == Min(batchSize, Cardinality(DbExpiredRows(st, t)))
    IN  UNION {Orderings(S) : S \in {X \in SUBSET DbExpiredRows(st, t) : Cardinality(X) = n}}

\* filepath.WalkDir visits the paste files in lexical order; the walk stops
\* once the list has reached batchSize, which is tested after the append
RECURSIVE FsWalk(_, _, _, _, _)
FsWalk(st, t, batchSize, todo, expired) ==
    IF todo = {} THEN expired
    ELSE LET id == CHOOSE x \in todo : \A y \in todo : x <= y
             e == Get(st.paste[id].meta, "expire_date", 0)
         IN  IF e > 0 /\ e < t
             THEN IF Len(expired) + 1 >= batchSize
                  THEN Append(expired, id)
                  ELSE FsWalk(st, t, batchSize, todo \ {id}, Append(expired, id))
             ELSE FsWalk(st, t, batchSize, todo \ {id}, expired)
FsGetExpiredPastes(st, t, batchSize) == {FsWalk(st, t, batchSize, DOMAIN st.paste, <<>>)}

(***************************************************************************)
(* The Storage interface (internal/storage/storage.go), dispatched on the  *)
(* backend that storage.New built                                          *)
(***************************************************************************)
CreatePasteOp(b, st, id, paste) ==
    IF b = "Database" THEN DbCreatePaste(st, id, paste) ELSE FsCreatePaste(st, id, paste)

DecodePaste(b, id, stored) ==
    IF b = "Database" THEN DbDecodePaste(id, stored) ELSE FsDecodePaste(id, stored)

\* a fault is [fault |-> the failing call, removed |-> what RemoveAll had removed]
DeleteFaults(b, st, id) ==
    IF b = "Database"
    THEN {[fault |-> f, removed |-> {}] : f \in DbDeleteFaults}
    ELSE {[fault |-> f, removed |-> {}] : f \in {"none", "remove"}}
         \cup {[fault |-> "removeall", removed |-> R] :
                    R \in {X \in SUBSET FsDiscussion(st, id) : X # FsDiscussion(st, id) \/ X = {}}}

DeletePasteOp(b, st, id, f) ==
    IF b = "Database" THEN DbDeletePaste(st, id, f.fault)
    ELSE FsDeletePaste(st, id, f.fault, f.removed)

PasteExistsOp(b, st, id) ==
    IF b = "Database" THEN DbPasteExists(st, id) ELSE FsPasteExists(st, id)

CreateCommentOp(b, st, pasteID, parentID, commentID, comment) ==
    IF b = "Database" THEN DbCreateComment(st, pasteID, parentID, commentID, comment)
    ELSE FsCreateComment(st, pasteID, parentID, commentID, comment)

ReadCommentsOp(b, st, pasteID) ==
    IF b = "Database" THEN DbReadComments(st, pasteID) ELSE FsReadComments(st, pasteID)

GetExpiredPastesOp(b, st, t, batchSize) ==
    IF b = "Database" THEN DbGetExpiredPastes(st, t, batchSize)
    ELSE FsGetExpiredPastes(st, t, batchSize)

\* every comment the backend holds, decoded
AllComments(b, st) ==
    IF b = "Database"
    THEN {DbDecodeComment(st.comment[c].pasteid, c, st.comment[c]) : c \in DOMAIN st.comment}
    ELSE {FsDecodeComment(k, st.comment[k]) : k \in DOMAIN st.comment}

(***************************************************************************)
(* The key-value store                                                     *)
(*                                                                         *)
(* A namespace, a key and a value are strings, written as sequences of     *)
(* characters; ".tmp" stands for its four characters.                      *)
(***************************************************************************)
\* id := namespace + "_" + key, the row of the config table; the filesystem
\* joins the same string to the _config directory
ConfigId(namespace, key) == namespace \o <<"_">> \o key
configPath(namespace, key) == ConfigId(namespace, key)

\* d.driver: the names the three imported drivers register
Drivers == {"sqlite3", "postgres", "mysql"}

\* Exec fails, or it does not
DbSetValueFaults == {"none", "exec"}

\* the three statements: INSERT OR REPLACE, ON CONFLICT (id) DO UPDATE,
\* ON DUPLICATE KEY UPDATE
DbSetValue(driver, st, namespace, key, value, f) ==
    LET id == ConfigId(namespace, key)
        upsert == [st EXCEPT !.config = (id :> value) @@ st.config]
    IN  IF f = "exec" THEN Ret(st, ErrStorage, NoVal)
        ELSE CASE driver = "sqlite3" -> Ret(upsert, ErrNone, NoVal)
               [] driver = "postgres" -> Ret(upsert, ErrNone, NoVal)
               [] driver = "mysql" -> Ret(upsert, ErrNone, NoVal)

\* QueryRow fails, or it does not
GetValueFaults == {"none", "read"}

\* a value that is not stored: sql.ErrNoRows gives "", nil
DbGetValue(st, namespace, key, f) ==
    LET id == ConfigId(namespace, key) IN
    IF f = "read" THEN Ret(st, ErrStorage, <<>>)
    ELSE IF id \in DOMAIN st.config THEN Ret(st, ErrNone, st.config[id])
    ELSE Ret(st, ErrNone, <<>>)

\* WriteFile of the temporary file fails, Rename fails, or neither
FsSetValueFaults == {"none", "write", "rename"}

\* the value is written to path + ".tmp", which is then renamed to path; a
\* failed Rename removes the temporary file
FsSetValue(st, namespace, key, value, f) ==
    LET path == configPath(namespace, key)
        tmpPath == path \o <<".tmp">>
        written == (tmpPath :> value) @@ st.config
        without == Restrict(written, DOMAIN written \ {tmpPath})
    IN  IF f = "write" THEN Ret(st, ErrStorage, NoVal)
        ELSE IF f = "rename" THEN Ret([st EXCEPT !.config = without], ErrStorage, NoVal)
        ELSE Ret([st EXCEPT !.config = (path :> value) @@ without], ErrNone, NoVal)

\* a file that does not exist: os.IsNotExist gives "", nil; another error of
\* ReadFile is returned
FsGetValue(st, namespace, key, f) ==
    LET path == configPath(namespace, key) IN
    IF f = "read" THEN Ret(st, ErrStorage, <<>>)
    ELSE IF path \in DOMAIN st.config THEN Ret(st, ErrNone, st.config[path])
    ELSE Ret(st, ErrNone, <<>>)

SetValueFaults(b) == IF b = "Database" THEN DbSetValueFaults ELSE FsSetValueFaults

SetValueOp(b, driver, st, namespace, key, value, f) ==
    IF b = "Database" THEN DbSetValue(driver, st, namespace, key, value, f)
    ELSE FsSetValue(st, namespace, key, value, f)

GetValueOp(b, st, namespace, key, f) ==
    IF b = "Database" THEN DbGetValue(st, namespace, key, f)
    ELSE FsGetValue(st, namespace, key, f)

(***************************************************************************)
(* Inputs                                                                  *)
(***************************************************************************)
ExpireDates == {0, 2}

MkPaste(data, name, att, adata, expire, disc) ==
    [Data |-> data, AttachmentName |-> name, Attachment |-> att, AData |-> adata,
     Version |-> 2,
     Meta |-> [PostDate |-> 1, ExpireDate |-> expire, Expire |-> "",
               BurnAfterReading |-> FALSE, OpenDiscussion |-> disc,
               Formatter |-> "plaintext", Salt |-> "salt", TimeToLive |-> 0]]

\* a paste without attachment; one with an attachment, discussion enabled and
\* an adata array written with a space after a comma
Content1(e) == MkPaste(<<"c", "1">>, <<>>, <<>>, <<"[", "1", "]">>, e, FALSE)
Content2(e) == MkPaste(<<"c", "2">>, <<"<", "n">>, <<"a", "=">>, <<"[", "1", ",", " ", "0", "]">>, e, TRUE)

PasteInputs ==
    IF univ = "contents"
    THEN {Content1(e) : e \in ExpireDates} \cup {Content2(e) : e \in ExpireDates}
    ELSE IF univ = "discussion" THEN {Content1(0), Content1(2)}
    ELSE IF univ = "purge" THEN {Content1(e) : e \in ExpireDates \cup {-1}}
    ELSE IF univ = "concurrent" THEN {Content1(0), Content2(0)}
    ELSE IF univ = "values" THEN {Content1(0)}
    ELSE IF univ = "frame" THEN {Content1(2), Content2(0)}
    ELSE {Content1(e) : e \in ExpireDates}

MkComment(data, t) ==
    [Data |-> data, AData |-> <<"[", "1", "]">>, Version |-> 2, Vizhash |-> "vh",
     Meta |-> [PostDate |-> t]]

CommentInputs ==
    IF univ = "discussion" THEN {MkComment(<<"m", "1">>, 2), MkComment(<<"m", "2">>, 1)}
    ELSE {MkComment(<<"m", "1">>, 1)}

\* the (namespace, key) pairs of the key-value callers: one pair next to one
\* whose key ends in ".tmp", and two pairs with the underscore in another place
ValueKeys ==
    IF univ = "frame" THEN {<<<<"a">>, <<"c">>>>}
    ELSE {<<<<"a">>, <<"c">>>>, <<<<"a">>, <<"c", ".tmp">>>>,
          <<<<"a">>, <<"b", "_", "c">>>>, <<<<"a", "_", "b">>, <<"c">>>>}
Values == IF univ = "frame" THEN {<<"v", "1">>} ELSE {<<"v", "1">>, <<"v", "2">>}

\* a comment's parent is its paste or the comment 11
ParentIds(pasteID) == IF univ \in {"discussion", "equiv"} THEN {pasteID, 11} ELSE {pasteID}

(***************************************************************************)
(* Callers                                                                 *)
(*                                                                         *)
(* Any number of goroutines call the instance.  A call that is one locked  *)
(* section is one step.  A call between two sections is an element of      *)
(* 'calls':                                                                *)
(*   [op |-> "ReadPaste", pc |-> "delete" or "return", id, same]           *)
(*   [op |-> "Purge", n, ids, count, deleted]                              *)
(* 'same' is history: the paste the call read is still the one stored;     *)
(* 'deleted' is history: how many of the call's DeletePaste returned nil.  *)
(***************************************************************************)
NoCall == [op |-> "none", id |-> 0, err |-> ErrNone, val |-> NoVal]

\* the status codes of net/http that the handlers answer with
StatusOK == "200"
StatusBadRequest == "400"
StatusForbidden == "403"
StatusNotFound == "404"
StatusConflict == "409"
StatusInternalServerError == "500"

Returned(op, id, err, val) == [op |-> op, id |-> id, err |-> err, val |-> val]

\* the ids that leave the store when it becomes st
Gone(st) == DOMAIN store.paste \ DOMAIN st.paste

Stale(c, st) ==
    IF c.op = "ReadPaste" /\ c.id \in Gone(st) THEN [c EXCEPT !.same = FALSE] ELSE c

\* the calls in progress, seen after the store has become st
Others(cs, st) ==
    LET D == {Stale(c, st) : c \in DOMAIN cs}
        Sum(d) == (IF d \in DOMAIN cs /\ Stale(d, st) = d THEN cs[d] ELSE 0)
                  + (IF d.op = "ReadPaste" /\ ~d.same
                        /\ [d EXCEPT !.same = TRUE] \in DOMAIN cs
                        /\ d.id \in Gone(st)
                     THEN cs[[d EXCEPT !.same = TRUE]] ELSE 0)
    IN  [d \in D |-> Sum(d)]

\* the history after the store has become st: a paste that stayed stored keeps
\* its entry, a new one starts its own
Track(st, paste) ==
    [hist EXCEPT !.written = [i \in DOMAIN st.paste |->
                    IF i \in DOMAIN store.paste THEN hist.written[i]
                    ELSE [paste |-> paste, reported |-> FALSE, served |-> 0]]]

Add(cs, c) == cs (+) SetToBag({c})
Remove(cs, c) == cs (-) SetToBag({c})

\* the zero value of sync.RWMutex: no reader, and no writer holds rw.w
Unlocked == [readers |-> {}, w |-> 0]

\* the salt initSalt left in h.salt: the encoding of three bytes
ServerSalt == <<"B", "A", "A", "B">>

InitIn(u) ==
    /\ backend \in Backends
    /\ univ = u
    /\ handler \in {[salt |-> IF u = "restart" THEN <<>> ELSE ServerSalt, discussion |-> d] :
                        d \in IF u = "comment" THEN BOOLEAN ELSE {TRUE}}
    /\ mu = Unlocked
    /\ store = EmptyStore
    /\ now = 1
    /\ calls = EmptyBag
    /\ last = NoCall
    /\ hist = [written |-> <<>>, set |-> <<>>]

Tick ==
    /\ now < MaxTime
    /\ now' = now + 1
    /\ last' = NoCall
    /\ UNCHANGED <<backend, univ, handler, mu, store, calls, hist>>

\* val records the paste that was passed
CreatePaste ==
    /\ \E id \in Ids, paste \in PasteInputs :
          LET r == CreatePasteOp(backend, store, id, paste) IN
          /\ store' = r.store
          /\ hist' = Track(r.store, paste)
          /\ last' = Returned("CreatePaste", id, r.err, paste)
    /\ UNCHANGED <<backend, univ, handler, mu, now, calls>>

\* ReadPaste up to the expiry check, under the read lock
ReadPaste ==
    /\ \E id \in Ids :
          IF ~PasteExistsOp(backend, store, id)
          THEN /\ last' = Returned("ReadPaste", id, ErrPasteNotFound, NoVal)
               /\ UNCHANGED calls
          ELSE LET paste == DecodePaste(backend, id, store.paste[id]) IN
               IF IsExpired(paste, now)
               THEN /\ BagCardinality(calls) < MaxCalls
                    /\ calls' = Add(calls, [op |-> "ReadPaste", pc |-> "delete",
                                             id |-> id, same |-> TRUE])
                    /\ last' = NoCall
               ELSE /\ last' = Returned("ReadPaste", id, ErrNone, paste)
                    /\ UNCHANGED calls
    /\ UNCHANGED <<backend, univ, handler, mu, store, now, hist>>

\* the read lock is released and DeletePaste(id) runs; its error is dropped
ReadPasteDelete ==
    /\ \E c \in DOMAIN calls :
          /\ c.op = "ReadPaste" /\ c.pc = "delete"
          /\ \E f \in DeleteFaults(backend, store, c.id) :
                LET r == DeletePasteOp(backend, store, c.id, f) IN
                /\ store' = r.store
                /\ hist' = Track(r.store, NoVal)
                /\ calls' = Add(Others(Remove(calls, c), r.store),
                                 [Stale(c, r.store) EXCEPT !.pc = "return"])
    /\ last' = NoCall
    /\ UNCHANGED <<backend, univ, handler, mu, now>>

\* the read lock is taken again and ErrPasteExpired is returned; getPaste
\* answers it with 404
ReadPasteReturn ==
    /\ \E c \in DOMAIN calls :
          /\ c.op = "ReadPaste" /\ c.pc = "return"
          /\ calls' = Remove(calls, c)
          /\ last' = IF univ = "handler"
                     THEN Returned("getPaste", c.id, StatusNotFound, NoVal)
                     ELSE IF univ = "comment"
                     THEN Returned("createComment", c.id, StatusNotFound,
                                   [request |-> c.req, comment |-> 0,
                                    reached |-> {[op |-> "ReadPaste", ids |-> {c.id}]}])
                     ELSE Returned("ReadPaste", c.id, ErrPasteExpired, NoVal)
          /\ hist' = IF c.same /\ c.id \in DOMAIN hist.written
                     THEN [hist EXCEPT !.written[c.id].reported = TRUE]
                     ELSE hist
    /\ UNCHANGED <<backend, univ, handler, mu, store, now>>

\* val records how many comments the paste had when the call began
DeletePaste ==
    /\ \E id \in Ids : \E f \in DeleteFaults(backend, store, id) :
          LET r == DeletePasteOp(backend, store, id, f) IN
          /\ store' = r.store
          /\ hist' = Track(r.store, NoVal)
          /\ calls' = Others(calls, r.store)
          /\ last' = Returned("DeletePaste", id, r.err,
                [comments |-> Cardinality({c \in AllComments(backend, store) : c.PasteID = id})])
    /\ UNCHANGED <<backend, univ, handler, mu, now>>

\* a probe that removes the row or file of a paste it finds expired
PasteExistsRemoving ==
    /\ \E id \in Ids :
          /\ last' = Returned("PasteExists", id, ErrNone,
                              [exists |-> PasteExistsOp(backend, store, id)])
          /\ store' = IF PasteExistsOp(backend, store, id)
                         /\ IsExpired(DecodePaste(backend, id, store.paste[id]), now)
                      THEN [store EXCEPT !.paste = Restrict(@, DOMAIN @ \ {id})]
                      ELSE store
          /\ hist' = Track(store', NoVal)
          /\ calls' = Others(calls, store')
    /\ UNCHANGED <<backend, univ, handler, mu, now>>

PasteExists ==
    /\ \E id \in Ids :
          last' = Returned("PasteExists", id, ErrNone, [exists |-> PasteExistsOp(backend, store, id)])
    /\ UNCHANGED <<backend, univ, handler, mu, store, now, calls, hist>>

CreateComment ==
    /\ \E id \in Ids, c \in CommentIds, comment \in CommentInputs : \E parent \in ParentIds(id) :
          LET r == CreateCommentOp(backend, store, id, parent, c, comment) IN
          /\ Cardinality(DOMAIN r.store.comment) <= MaxComments
          /\ store' = r.store
          /\ last' = Returned("CreateComment", id, r.err, [comment |-> c])
    /\ UNCHANGED <<backend, univ, handler, mu, now, calls, hist>>

ReadComments ==
    /\ \E id \in Ids : \E cs \in ReadCommentsOp(backend, store, id) :
          last' = Returned("ReadComments", id, ErrNone, [list |-> cs])
    /\ UNCHANGED <<backend, univ, handler, mu, store, now, calls, hist>>

\* the latest value that a SetValue returning nil has set, for every pair
Recorded(err, k, value) ==
    IF err = ErrNone THEN [hist EXCEPT !.set = (k :> value) @@ @] ELSE hist

SetValue ==
    /\ \E k \in ValueKeys, value \in Values, driver \in Drivers :
          \E f \in SetValueFaults(backend) :
             LET r == SetValueOp(backend, driver, store, k[1], k[2], value, f) IN
             /\ store' = r.store
             /\ hist' = Recorded(r.err, k, value)
             /\ last' = Returned("SetValue", 0, r.err, [key |-> k, value |-> value])
    /\ UNCHANGED <<backend, univ, handler, mu, now, calls>>

GetValue ==
    /\ \E k \in ValueKeys, f \in GetValueFaults :
          LET r == GetValueOp(backend, store, k[1], k[2], f) IN
          last' = Returned("GetValue", 0, r.err, [key |-> k, value |-> r.val])
    /\ UNCHANGED <<backend, univ, handler, mu, store, now, calls, hist>>

GetExpiredPastes ==
    /\ \E n \in BatchSizes : \E ids \in GetExpiredPastesOp(backend, store, now, n) :
          last' = Returned("GetExpiredPastes", 0, ErrNone, [n |-> n, ids |-> ids])
    /\ UNCHANGED <<backend, univ, handler, mu, store, now, calls, hist>>

\* Purge: the scan, then one DeletePaste per listed id
PurgeN(n) ==
    /\ \E ids \in GetExpiredPastesOp(backend, store, now, n) :
          IF ids = <<>>
          THEN /\ last' = Returned("Purge", 0, ErrNone, [n |-> n, count |-> 0, deleted |-> 0])
               /\ UNCHANGED calls
          ELSE /\ BagCardinality(calls) < MaxCalls
               /\ calls' = Add(calls, [op |-> "Purge", n |-> n, ids |-> ids,
                                        count |-> 0, deleted |-> 0])
               /\ last' = NoCall
    /\ UNCHANGED <<backend, univ, handler, mu, store, now, hist>>

Purge == \E n \in BatchSizes : PurgeN(n)

\* a loop that returns on every error of DeletePaste
PurgeStopsOnAnyError(err) == err # ErrNone

\* err != nil && err != model.ErrPasteNotFound
PurgeStops(err) == err # ErrNone /\ err # ErrPasteNotFound

\* the next DeletePaste of a Purge call in progress, with the faults in F
PurgeDeleteIn(F) ==
    /\ \E c \in DOMAIN calls :
          /\ c.op = "Purge"
          /\ \E f \in {x \in DeleteFaults(backend, store, Head(c.ids)) : x.fault \in F} :
                LET r == DeletePasteOp(backend, store, Head(c.ids), f)
                    stop == PurgeStops(r.err)
                    count == IF stop THEN c.count ELSE c.count + 1
                    deleted == IF r.err = ErrNone THEN c.deleted + 1 ELSE c.deleted
                    rest == Others(Remove(calls, c), r.store)
                IN
                /\ store' = r.store
                /\ hist' = Track(r.store, NoVal)
                /\ IF stop \/ Tail(c.ids) = <<>>
                   THEN /\ last' = Returned("Purge", 0, IF stop THEN r.err ELSE ErrNone,
                                             [n |-> c.n, count |-> count, deleted |-> deleted])
                        /\ calls' = rest
                   ELSE /\ calls' = Add(rest, [c EXCEPT !.ids = Tail(@), !.count = count,
                                                          !.deleted = deleted])
                        /\ last' = NoCall
    /\ UNCHANGED <<backend, univ, handler, mu, now>>

PurgeDelete == PurgeDeleteIn(DbDeleteFaults \cup FsDeleteFaults)

(***************************************************************************)
(* internal/handler: the requests for a paste                              *)
(*                                                                         *)
(* A request is answered in one step unless it waits for a lock twice.     *)
(* The goroutine that getPaste starts for a burn-after-reading paste is    *)
(* the element [op |-> "burn", id] of 'calls' until its DeletePaste runs.  *)
(***************************************************************************)
\* an identifier that is not 16 lowercase hex characters
MalformedId == 0
ValidateIDOrError(id) == IF id = MalformedId THEN "invalid ID format" ELSE ErrNone
RequestIds == Ids \cup {MalformedId}

\* h.config.Main.SizeLimit, in characters
SizeLimit == 4

\* h.config.GetExpireDuration: "5min" lasts one tick of the clock, "never" and
\* an unknown option are 0
GetExpireDuration(option) == IF option = "5min" THEN 1 ELSE 0

\* the requests to create a paste.  With a valid ciphertext and no expiry: an
\* adata array with every combination of the two flags as 0 or 1, one with
\* the flags as true, one with an unknown formatter, one of one element.
\* Besides, one that expires, one without and one with an oversized ciphertext.
Ciphertexts == {<<>>, <<"c", "1">>, <<"c", "1", "c", "1", "c">>}
ADataOf(formatter, discussion, burn) ==
    <<"[", "[", "]", ",", "\"", formatter, "\"", ",">> \o discussion \o <<",">> \o burn \o <<"]">>
ADatas ==
    {ADataOf("p", d, b) : d \in {<<"0">>, <<"1">>}, b \in {<<"0">>, <<"1">>}}
        \cup {ADataOf("p", <<"t", "r", "u", "e">>, <<"t", "r", "u", "e">>),
              ADataOf("x", <<"0">>, <<"0">>),
              <<"[", "1", "]">>}
CreateRequests ==
    IF univ \in {"restart", "retry"}
    THEN {[ct |-> <<"c", "1">>, adata |-> <<"[", "1", "]">>, expire |-> "never"]}
    ELSE IF univ = "comment"
    THEN {[ct |-> <<"c", "1">>, adata |-> ADataOf("p", <<"1">>, <<"0">>), expire |-> e] :
              e \in {"never", "5min"}}
         \cup {[ct |-> <<"c", "1">>, adata |-> ADataOf("p", <<"0">>, b), expire |-> "never"] :
                   b \in {<<"0">>, <<"1">>}}
    ELSE
    {[ct |-> <<"c", "1">>, adata |-> adata, expire |-> "never"] : adata \in ADatas}
        \cup {[ct |-> <<"c", "1">>, adata |-> ADataOf("p", <<"0">>, <<"0">>), expire |-> "5min"]}
        \cup {[ct |-> ct, adata |-> <<"[", "1", "]">>, expire |-> "never"] : ct \in Ciphertexts}

\* createPaste up to Validate: the paste built from the request at clock t
RequestPaste(req, t) ==
    SetExpiration(ParseAData([NewPaste(t) EXCEPT !.Data = req.ct,
                                                 !.AData = MarshalRawMessage(req.adata)]),
                  GetExpireDuration(req.expire), t)

\* Handler.createPaste; pasteID is the identifier that the loop over
\* GenerateID and PasteExists ends with.  val is the paste that was stored.
CreatePasteHandler(st, req, t, pasteID) ==
    IF req.ct = <<>> \/ Len(req.ct) > SizeLimit
    THEN Ret(st, StatusBadRequest, NoVal)
    ELSE IF Validate(RequestPaste(req, t)) # ErrNone
    THEN Ret(st, StatusBadRequest, NoVal)
    ELSE LET paste == [RequestPaste(req, t) EXCEPT !.Meta.Salt = handler.salt]
             r == CreatePasteOp(backend, st, pasteID, paste)
         IN  IF r.err = ErrPasteExists THEN Ret(st, StatusConflict, NoVal)
             ELSE Ret(r.store, StatusOK, paste)

\* the response carries the id and the delete token
\* a request is served by a Handler that New has built
Serving == handler.salt # <<>>

createPaste ==
    /\ Serving
    /\ \E req \in CreateRequests, pasteID \in Ids :
          LET r == CreatePasteHandler(store, req, now, pasteID)
              token == GenerateDeleteToken(pasteID, handler.salt)
          IN
          /\ store' = r.store
          /\ hist' = Track(r.store, r.val)
          /\ last' = Returned("createPaste", pasteID, r.err,
                              [request |-> req,
                               deletetoken |-> IF r.err = StatusOK /\ ~token.err
                                               THEN token.token ELSE EmptyToken])
    /\ UNCHANGED <<backend, univ, handler, mu, now, calls>>

\* the bound of the loop over GenerateID in createPaste
MaxAttempts == 10

\* the loop: generated[i] is what the i-th GenerateID returns; the loop ends
\* at the first id that PasteExists does not find, or after MaxAttempts ids
\* with the last of them
RECURSIVE GenerateLoop(_, _, _)
GenerateLoop(st, generated, attempts) ==
    LET pasteID == generated[attempts + 1] IN
    IF ~PasteExistsOp(backend, st, pasteID)
    THEN [id |-> pasteID, attempts |-> attempts + 1, exhausted |-> FALSE]
    ELSE IF attempts + 1 >= MaxAttempts
    THEN [id |-> pasteID, attempts |-> attempts + 1, exhausted |-> TRUE]
    ELSE GenerateLoop(st, generated, attempts + 1)

\* createPaste up to the end of the loop, which takes the read lock for
\* every PasteExists; the request then waits for the write lock of CreatePaste
\*   [op |-> "createPaste", req, id, attempts, exhausted]
createPasteGenerate ==
    /\ Serving
    /\ BagCardinality(calls) < MaxCalls
    /\ \E req \in CreateRequests :
          IF req.ct = <<>> \/ Len(req.ct) > SizeLimit \/ Validate(RequestPaste(req, now)) # ErrNone
          THEN /\ last' = Returned("createPaste", 0, StatusBadRequest,
                                   [request |-> req, deletetoken |-> EmptyToken,
                                    attempts |-> 0, exhausted |-> FALSE])
               /\ UNCHANGED calls
          ELSE \/ \* GenerateID fails
                  /\ last' = Returned("createPaste", 0, StatusInternalServerError,
                                      [request |-> req, deletetoken |-> EmptyToken,
                                       attempts |-> 1, exhausted |-> FALSE])
                  /\ UNCHANGED calls
               \/ \E generated \in [1..MaxAttempts -> Ids] :
                     LET g == GenerateLoop(store, generated, 0) IN
                     /\ calls' = Add(calls, [op |-> "createPaste", req |-> req, id |-> g.id,
                                              attempts |-> g.attempts, exhausted |-> g.exhausted])
                     /\ last' = NoCall
    /\ UNCHANGED <<backend, univ, handler, mu, store, now, hist>>

\* createPaste from CreatePaste on
createPasteStore ==
    /\ \E c \in DOMAIN calls :
          /\ c.op = "createPaste"
          /\ LET r == CreatePasteHandler(store, c.req, now, c.id)
                 token == GenerateDeleteToken(c.id, handler.salt)
             IN
             /\ store' = r.store
             /\ hist' = Track(r.store, r.val)
             /\ calls' = Remove(calls, c)
             /\ last' = Returned("createPaste", c.id, r.err,
                                 [request |-> c.req,
                                  deletetoken |-> IF r.err = StatusOK /\ ~token.err
                                                  THEN token.token ELSE EmptyToken,
                                  attempts |-> c.attempts, exhausted |-> c.exhausted])
    /\ UNCHANGED <<backend, univ, handler, mu, now>>

\* Handler.getPaste.  An expired paste goes on in ReadPasteDelete and
\* ReadPasteReturn; a paste that is served is answered here, and for a
\* burn-after-reading paste the goroutine that deletes it is started.
getPaste ==
    /\ Serving
    /\ \E id \in RequestIds :
          IF ValidateIDOrError(id) # ErrNone
          THEN /\ last' = Returned("getPaste", id, StatusBadRequest, NoVal)
               /\ UNCHANGED <<calls, hist>>
          ELSE IF ~PasteExistsOp(backend, store, id)
          THEN /\ last' = Returned("getPaste", id, StatusNotFound, NoVal)
               /\ UNCHANGED <<calls, hist>>
          ELSE LET paste == DecodePaste(backend, id, store.paste[id])
                   shouldDelete == paste.Meta.BurnAfterReading
               IN
               IF IsExpired(paste, now)
               THEN /\ BagCardinality(calls) < MaxCalls
                    /\ calls' = Add(calls, [op |-> "ReadPaste", pc |-> "delete",
                                             id |-> id, same |-> TRUE])
                    /\ last' = NoCall
                    /\ UNCHANGED hist
               ELSE /\ shouldDelete => BagCardinality(calls) < MaxCalls
                    /\ \E comments \in (IF paste.Meta.OpenDiscussion
                                          THEN ReadCommentsOp(backend, store, id)
                                          ELSE {<<>>}) :
                          last' = Returned("getPaste", id, StatusOK,
                                           [ct |-> paste.Data, adata |-> paste.AData,
                                            burn |-> shouldDelete, comments |-> comments])
                    /\ calls' = IF shouldDelete THEN Add(calls, [op |-> "burn", id |-> id])
                                 ELSE calls
                    /\ hist' = [hist EXCEPT !.written[id].served = Min(@ + 1, 2)]
    /\ UNCHANGED <<backend, univ, handler, mu, store, now>>

\* the goroutine of getPaste: after its sleep, DeletePaste(id), error dropped
BurnDelete ==
    /\ \E c \in DOMAIN calls :
          /\ c.op = "burn"
          /\ \E f \in DeleteFaults(backend, store, c.id) :
                LET r == DeletePasteOp(backend, store, c.id, f) IN
                /\ store' = r.store
                /\ hist' = Track(r.store, NoVal)
                /\ calls' = Others(Remove(calls, c), r.store)
    /\ last' = NoCall
    /\ UNCHANGED <<backend, univ, handler, mu, now>>

\* an identifier that the request does not have, or has as the empty string
NoId == -1

\* the requests to create a comment: the paste id absent, malformed or well
\* formed; the parent id absent, malformed or the id of a comment; and one
\* request without data
CommentRequests ==
    [pasteid : RequestIds \cup {NoId}, parentid : {NoId, MalformedId, 11},
     data : {<<"m", "1">>}]
        \cup {[pasteid |-> 1, parentid |-> NoId, data |-> <<>>]}

\* what createComment answers; 'reached' is history: the storage calls that
\* the request has made, each with the identifiers it passed
CommentResponse(req, status, commentID, reached) ==
    Returned("createComment", req.pasteid, status,
             [request |-> req, comment |-> commentID, reached |-> reached])

\* createComment up to the comment model: the checks of the request and of
\* the paste that ReadPaste returns.  An expired paste goes on in
\* ReadPasteDelete and ReadPasteReturn; a request that passes waits for the
\* locks of CommentExists and CreateComment
\*   [op |-> "createComment", req, id, parent, comment]
createCommentRead ==
    /\ Serving
    /\ \E req \in CommentRequests :
          LET read == {[op |-> "ReadPaste", ids |-> {req.pasteid}]} IN
          IF ~handler.discussion
          THEN last' = CommentResponse(req, StatusForbidden, 0, {}) /\ UNCHANGED calls
          ELSE IF req.pasteid = NoId
          THEN last' = CommentResponse(req, StatusBadRequest, 0, {}) /\ UNCHANGED calls
          ELSE IF ValidateIDOrError(req.pasteid) # ErrNone
          THEN last' = CommentResponse(req, StatusBadRequest, 0, {}) /\ UNCHANGED calls
          ELSE IF ~PasteExistsOp(backend, store, req.pasteid)
          THEN last' = CommentResponse(req, StatusNotFound, 0, read) /\ UNCHANGED calls
          ELSE LET paste == DecodePaste(backend, req.pasteid, store.paste[req.pasteid]) IN
               IF IsExpired(paste, now)
               THEN /\ BagCardinality(calls) < MaxCalls
                    /\ calls' = Add(calls, [op |-> "ReadPaste", pc |-> "delete",
                                             id |-> req.pasteid, same |-> TRUE, req |-> req])
                    /\ last' = NoCall
               ELSE IF ~paste.Meta.OpenDiscussion
               THEN last' = CommentResponse(req, StatusForbidden, 0, read) /\ UNCHANGED calls
               ELSE IF paste.Meta.BurnAfterReading
               THEN last' = CommentResponse(req, StatusForbidden, 0, read) /\ UNCHANGED calls
               ELSE IF req.data = <<>>
               THEN last' = CommentResponse(req, StatusBadRequest, 0, read) /\ UNCHANGED calls
               ELSE IF req.parentid # NoId /\ ValidateIDOrError(req.parentid) # ErrNone
               THEN last' = CommentResponse(req, StatusBadRequest, 0, read) /\ UNCHANGED calls
               ELSE /\ BagCardinality(calls) < MaxCalls
                    /\ calls' = Add(calls,
                          [op |-> "createComment", req |-> req, id |-> req.pasteid,
                           parent |-> IF req.parentid = NoId THEN req.pasteid ELSE req.parentid,
                           comment |-> MkComment(req.data, now)])
                    /\ last' = NoCall
    /\ UNCHANGED <<backend, univ, handler, mu, store, now, hist>>

\* createComment from the loop over GenerateID and CommentExists on;
\* commentID is the identifier that the loop ends with
createCommentStore ==
    /\ \E c \in DOMAIN calls :
          /\ c.op = "createComment"
          /\ \E commentID \in CommentIds :
                LET r == CreateCommentOp(backend, store, c.id, c.parent, commentID, c.comment)
                    reached == {[op |-> "ReadPaste", ids |-> {c.id}],
                                [op |-> "CommentExists", ids |-> {c.id, c.parent, commentID}],
                                [op |-> "CreateComment", ids |-> {c.id, c.parent, commentID}]}
                IN
                /\ Cardinality(DOMAIN r.store.comment) <= MaxComments
                /\ store' = r.store
                /\ calls' = Remove(calls, c)
                /\ last' = CommentResponse(c.req,
                                           IF r.err = ErrNone THEN StatusOK
                                           ELSE IF r.err = ErrCommentExists THEN StatusConflict
                                           ELSE IF r.err = ErrPasteNotFound THEN StatusNotFound
                                           ELSE StatusInternalServerError,
                                           IF r.err = ErrNone THEN commentID ELSE 0, reached)
    /\ UNCHANGED <<backend, univ, handler, mu, now, hist>>

\* the tokens a delete request presents: none, the token of every id under
\* the server's salt, and the token of an id under another salt
PresentedTokens ==
    {EmptyToken}
        \cup {GenerateDeleteToken(id, ServerSalt).token : id \in Ids \cup {MalformedId}}
        \cup {GenerateDeleteToken(1, <<"A", "B", "B", "A">>).token}
        \cup {GenerateDeleteToken(1, handler.salt).token}

\* deletePaste that does not validate the token
DeletePasteUnvalidated(st, pasteID, deleteToken, f) ==
    IF ValidateIDOrError(pasteID) # ErrNone THEN Ret(st, StatusBadRequest, NoVal)
    ELSE IF deleteToken = EmptyToken THEN Ret(st, StatusBadRequest, NoVal)
    ELSE LET r == DeletePasteOp(backend, st, pasteID, f) IN
         IF r.err = ErrPasteNotFound THEN Ret(r.store, StatusNotFound, NoVal)
         ELSE IF r.err # ErrNone THEN Ret(r.store, StatusInternalServerError, NoVal)
         ELSE Ret(r.store, StatusOK, NoVal)

\* Handler.deletePaste with the outcome f of the storage calls
DeletePasteHandler(st, pasteID, deleteToken, f) ==
    IF ValidateIDOrError(pasteID) # ErrNone THEN Ret(st, StatusBadRequest, NoVal)
    ELSE IF deleteToken = EmptyToken THEN Ret(st, StatusBadRequest, NoVal)
    ELSE IF ~ValidateDeleteToken(deleteToken, pasteID, handler.salt)
    THEN Ret(st, StatusForbidden, NoVal)
    ELSE LET r == DeletePasteOp(backend, st, pasteID, f) IN
         IF r.err = ErrPasteNotFound THEN Ret(r.store, StatusNotFound, NoVal)
         ELSE IF r.err # ErrNone THEN Ret(r.store, StatusInternalServerError, NoVal)
         ELSE Ret(r.store, StatusOK, NoVal)

deletePaste ==
    /\ Serving
    /\ \E id \in RequestIds, token \in PresentedTokens :
          \E f \in (IF id \in Ids THEN DeleteFaults(backend, store, id)
                     ELSE {[fault |-> "none", removed |-> {}]}) :
             LET r == DeletePasteHandler(store, id, token, f) IN
             /\ store' = r.store
             /\ hist' = Track(r.store, NoVal)
             /\ calls' = Others(calls, r.store)
             /\ last' = Returned("deletePaste", id, r.err, [deletetoken |-> token])
    /\ UNCHANGED <<backend, univ, handler, mu, now>>

\* storage.NamespaceSalt and the key of the server salt
NamespaceSalt == <<"salt">>
SaltKey == <<"server">>

\* what util.GenerateSalt returns: the encoding of random bytes
GeneratedSalts == {ServerSalt, <<"A", "B", "B", "A">>}

\* "flashpaper-fallback-salt-change-me", the salt when GenerateSalt fails
FallbackSalt == <<"f", "-", "s">>

\* Handler.initSalt over the store st: fg and fs are the outcomes of GetValue
\* and SetValue, generated is what GenerateSalt returns or, when it fails,
\* the fallback.  The error of SetValue is dropped.
InitSalt(st, fg, fs, driver, generated) ==
    LET g == GetValueOp(backend, st, NamespaceSalt, SaltKey, fg) IN
    IF g.err = ErrNone /\ g.val # <<>>
    THEN [store |-> st, salt |-> g.val]
    ELSE [store |-> SetValueOp(backend, driver, st, NamespaceSalt, SaltKey, generated, fs).store,
          salt |-> generated]

\* handler.New: the process starts, or starts again, over the same store
New ==
    /\ \E fg \in GetValueFaults, fs \in SetValueFaults(backend), driver \in Drivers,
          generated \in GeneratedSalts \cup {FallbackSalt} :
          LET r == InitSalt(store, fg, fs, driver, generated) IN
          /\ store' = r.store
          /\ handler' = [handler EXCEPT !.salt = r.salt]
          /\ last' = Returned("New", 0, ErrNone, [salt |-> r.salt])
    /\ UNCHANGED <<backend, univ, mu, now, calls, hist>>

Next ==
    \/ Tick
    \/ CreatePaste
    \/ ReadPaste
    \/ ReadPasteDelete
    \/ ReadPasteReturn
    \/ DeletePaste
    \/ PasteExists
    \/ CreateComment
    \/ ReadComments
    \/ GetExpiredPastes
    \/ Purge
    \/ PurgeDelete

\* callers that exercise the paste lifecycle with every paste input
Init == InitIn("pastes")
Spec == Init /\ [][Next]_vars

\* callers that exercise one id with every paste content
InitContents == InitIn("contents")
SpecContents == InitContents /\ [][Next]_vars

\* callers that create pastes under distinct ids at the same time, each with
\* its own content, and read them; every call is one locked section
NextConcurrent ==
    \/ CreatePaste
    \/ ReadPaste
    \/ PasteExists

InitConcurrent == InitIn("concurrent")
SpecConcurrent == InitConcurrent /\ [][NextConcurrent]_vars

\* callers of the key-value store, next to callers that create and delete a
\* paste and comment on it
NextValues ==
    \/ SetValue
    \/ GetValue
    \/ CreatePaste
    \/ CreateComment
    \/ DeletePaste

InitValues == InitIn("values")
SpecValues == InitValues /\ [][NextValues]_vars

\* callers that exercise the expiry scan and the purge with every batch size
NextPurge ==
    \/ Tick
    \/ CreatePaste
    \/ DeletePaste
    \/ GetExpiredPastes
    \/ Purge
    \/ PurgeDelete

InitPurge == InitIn("purge")
SpecPurge == InitPurge /\ [][NextPurge]_vars

\* a maintenance loop: pastes are created until the clock reaches MaxTime,
\* Purge is called again and again with a batch size of at least 1, every
\* Purge call in progress goes on, and storage does not fail for ever
CreateBeforeMaxTime == now < MaxTime /\ CreatePaste

NextDrain ==
    \/ Tick
    \/ CreateBeforeMaxTime
    \/ Purge
    \/ PurgeDelete

FairDrain ==
    /\ WF_now(Tick)
    /\ SF_calls(\E n \in BatchSizes \ {0} : PurgeN(n))
    /\ WF_calls(PurgeDelete)
    /\ SF_store(PurgeDeleteIn({"none"}))

SpecDrain == InitPurge /\ [][NextDrain]_vars /\ FairDrain

\* callers of the delete-token functions: every string of four characters out
\* of A, B and = as the salt, the empty salt, one with a line break and one
\* with a character outside the alphabet; every derived token and the empty one
TokenIds == {1, 2}
Salts ==
    [1..4 -> {"A", "B", "="}]
        \cup {<<>>, <<"A", "A", "\n", "A", "A">>, <<"A", "-", "A", "A">>}
Tokens == {GenerateDeleteToken(i, salt).token : i \in TokenIds, salt \in Salts}

ErrDecodingSalt == "decoding salt"

\* the arguments are drawn once; the call in 'calls' holds them
\*   [op |-> "DeleteToken", provided, id, salt]
GenerateToken ==
    /\ \E c \in DOMAIN calls :
          /\ c.op = "DeleteToken"
          /\ LET r == GenerateDeleteToken(c.id, c.salt) IN
             last' = Returned("GenerateDeleteToken", c.id,
                              IF r.err THEN ErrDecodingSalt ELSE ErrNone,
                              [salt |-> c.salt, token |-> r.token])
    /\ UNCHANGED <<backend, univ, handler, mu, store, now, calls, hist>>

ValidateToken ==
    /\ \E c \in DOMAIN calls :
          /\ c.op = "DeleteToken"
          /\ last' = Returned("ValidateDeleteToken", c.id, ErrNone,
                              [salt |-> c.salt, provided |-> c.provided,
                               valid |-> ValidateDeleteToken(c.provided, c.id, c.salt)])
    /\ UNCHANGED <<backend, univ, handler, mu, store, now, calls, hist>>

NextToken ==
    \/ GenerateToken
    \/ ValidateToken

InitToken ==
    /\ backend = "Database"
    /\ univ = "token"
    /\ handler = [salt |-> ServerSalt, discussion |-> TRUE]
    /\ mu = Unlocked
    /\ store = EmptyStore
    /\ now = 1
    /\ calls \in {SetToBag({[op |-> "DeleteToken", provided |-> t, id |-> id, salt |-> salt]}) :
                      t \in Tokens, id \in TokenIds, salt \in Salts}
    /\ last = NoCall
    /\ hist = [written |-> <<>>, set |-> <<>>]

SpecToken == InitToken /\ [][NextToken]_vars

\* the requests for a paste, with comments stored next to them
NextHandler ==
    \/ Tick
    \/ createPaste
    \/ getPaste
    \/ ReadPasteDelete
    \/ ReadPasteReturn
    \/ BurnDelete
    \/ deletePaste
    \/ CreateComment

InitHandler == InitIn("handler")
SpecHandler == InitHandler /\ [][NextHandler]_vars

\* every goroutine that getPaste has started runs its DeletePaste
SpecHandlerFair == SpecHandler /\ WF_calls(BurnDelete)

\* a server that is started again and again over one store, and serves
\* requests to create and to delete a paste in between
NextRestart ==
    \/ New
    \/ createPaste
    \/ deletePaste

InitRestart == InitIn("restart")
SpecRestart == InitRestart /\ [][NextRestart]_vars

\* creation requests that go through the loop over GenerateID, next to
\* callers that delete pastes
NextRetry ==
    \/ createPasteGenerate
    \/ createPasteStore
    \/ DeletePaste

InitRetry == InitIn("retry")
SpecRetry == InitRetry /\ [][NextRetry]_vars

\* requests to comment on a paste, next to requests that create pastes,
\* while the clock runs
NextComment ==
    \/ Tick
    \/ createPaste
    \/ createCommentRead
    \/ createCommentStore
    \/ ReadPasteDelete
    \/ ReadPasteReturn

InitComment == InitIn("comment")
SpecComment == InitComment /\ [][NextComment]_vars

\* callers of every operation of the Storage interface on two pastes: one
\* that expires and one that does not
NextFrame ==
    \/ Tick
    \/ CreatePaste
    \/ ReadPaste
    \/ ReadPasteDelete
    \/ ReadPasteReturn
    \/ DeletePaste
    \/ PasteExists
    \/ CreateComment
    \/ SetValue
    \/ Purge
    \/ PurgeDelete

InitFrame == InitIn("frame")
SpecFrame == InitFrame /\ [][NextFrame]_vars

\* callers that exercise discussions with every comment input
InitDiscussion == InitIn("discussion")
SpecDiscussion == InitDiscussion /\ [][Next]_vars

(***************************************************************************)
(* Properties                                                              *)
(***************************************************************************)
\* the row or file that CreatePaste(id, paste) writes into an empty backend
StoredForm(id, paste) == CreatePasteOp(backend, EmptyStore, id, paste).store.paste[id]

\* C1: a CreatePaste on an id that is stored returns ErrPasteExists and changes
\* nothing, so the stored paste stays the one its first write left; a
\* CreatePaste succeeds only on an id that is not stored, so of any number of
\* creates of one id exactly one succeeds.  Both backends.
C1_CreateOnStoredId ==
    [][last'.op = "CreatePaste" =>
          /\ (last'.id \in DOMAIN store.paste
                => last'.err = ErrPasteExists /\ store' = store /\ hist' = hist)
          /\ (last'.id \notin DOMAIN store.paste
                => last'.err = ErrNone /\ last'.id \in DOMAIN store'.paste)
          /\ store'.paste[last'.id] = StoredForm(last'.id, hist'.written[last'.id].paste)]_vars

C1_Witness ==
    /\ last.op = "CreatePaste"
    /\ last.err = ErrPasteExists
    /\ last.val = Content1(2)
    /\ hist.written[last.id].paste = Content1(0)
    /\ store.paste[last.id] = StoredForm(last.id, Content1(0))

\* the fields of a paste that a reader gets back
SameContent(p, q) ==
    /\ p.Data = q.Data
    /\ p.Attachment = q.Attachment
    /\ p.AttachmentName = q.AttachmentName
    /\ p.AData = q.AData
    /\ p.Meta.BurnAfterReading = q.Meta.BurnAfterReading
    /\ p.Meta.OpenDiscussion = q.Meta.OpenDiscussion

\* C2: a ReadPaste that returns a paste returns the ciphertext, attachment,
\* attachment name, adata and flags that the CreatePaste of that paste was
\* given, on both backends.
C2_CreateThenRead ==
    (last.op = "ReadPaste" /\ last.err = ErrNone)
        => SameContent(last.val, hist.written[last.id].paste)

\* C3: a ReadPaste of a paste whose expiration timestamp is nonzero and at or
\* before the clock does not return the paste, and after a ReadPaste has
\* returned ErrPasteExpired the paste does not exist.
C3_ExpiredAtOrBeforeNow ==
    /\ (last.op = "ReadPaste" /\ last.err = ErrNone)
          => ~(last.val.Meta.ExpireDate # 0 /\ last.val.Meta.ExpireDate <= now)
    /\ (last.op = "ReadPaste" /\ last.err = ErrPasteExpired)
          => ~PasteExistsOp(backend, store, last.id)

\* C4: when ReadPaste returns ErrPasteExpired, the paste and all its comments
\* are absent from storage, whatever the DeletePaste inside it did.
C4_ExpiredMeansRemoved ==
    (last.op = "ReadPaste" /\ last.err = ErrPasteExpired)
        => /\ ~PasteExistsOp(backend, store, last.id)
           /\ \A c \in AllComments(backend, store) : c.PasteID # last.id

\* C5: a stored paste that a ReadPaste has reported as expired is never
\* returned by a ReadPaste afterwards, under any interleaving of callers; a
\* paste created later under the same id is another paste.
C5_NoStaleContent ==
    (last.op = "ReadPaste" /\ last.err = ErrNone) => ~hist.written[last.id].reported

\* a paste was reported as expired, its delete failed, and a second reader of
\* it is between its expiry check and its delete when ErrPasteExpired returns
C5_Witness ==
    /\ last.op = "ReadPaste"
    /\ last.err = ErrPasteExpired
    /\ last.id \in DOMAIN hist.written
    /\ hist.written[last.id].reported
    /\ \E c \in DOMAIN calls : c.op = "ReadPaste" /\ c.id = last.id /\ c.same

Range(q) == {q[i] : i \in DOMAIN q}

\* C6: a paste stored with expiration timestamp 0 is not expired at any clock
\* value, no GetExpiredPastes lists it, and it leaves the store only by a
\* DeletePaste call for its id, never by a Purge or by a ReadPaste.
C6_NeverExpires ==
    [][\A id \in DOMAIN store.paste :
          hist.written[id].paste.Meta.ExpireDate = 0 =>
              /\ ~IsExpired(DecodePaste(backend, id, store.paste[id]), now)
              /\ \A n \in BatchSizes :
                    \A ids \in GetExpiredPastesOp(backend, store, now, n) : id \notin Range(ids)
              /\ (id \notin DOMAIN store'.paste
                    => last'.op = "DeletePaste" /\ last'.id = id)]_vars

\* C7: after a DeletePaste(id) that succeeded the paste does not exist (so
\* ReadPaste answers ErrPasteNotFound), no comment of the paste is stored and
\* ReadComments(id) returns the empty list, on both backends.
C7_DeleteCascades ==
    (last.op = "DeletePaste" /\ last.err = ErrNone)
        => /\ ~PasteExistsOp(backend, store, last.id)
           /\ \A c \in AllComments(backend, store) : c.PasteID # last.id
           /\ ReadCommentsOp(backend, store, last.id) = {<<>>}

\* a DeletePaste succeeded on a paste that had two comments
C7_Witness ==
    /\ last.op = "DeletePaste"
    /\ last.err = ErrNone
    /\ last.val.comments = 2

\* C8: in the relational backend a DeletePaste that returns an error
\* (ErrPasteNotFound, or a failure of a statement or of the commit) has
\* changed neither the paste table nor the comment table.
C8_DeleteAllOrNothing ==
    [][(backend = "Database" /\ last'.op = "DeletePaste" /\ last'.err # ErrNone)
          => store' = store]_vars

\* a DeletePaste failed in the database on a paste with two comments
C8_Witness ==
    /\ backend = "Database"
    /\ last.op = "DeletePaste"
    /\ last.err = ErrStorage
    /\ last.val.comments = 2
    /\ Cardinality({c \in AllComments(backend, store) : c.PasteID = last.id}) = 2

\* C9: every stored comment belongs to a stored paste, in every reachable
\* state, and a CreateComment on a paste that is not stored returns
\* ErrPasteNotFound and stores nothing.
C9_NoOrphanComment ==
    /\ [](\A c \in AllComments(backend, store) : PasteExistsOp(backend, store, c.PasteID))
    /\ [][(last'.op = "CreateComment" /\ ~PasteExistsOp(backend, store, last'.id))
             => (last'.err = ErrPasteNotFound /\ store' = store)]_vars

\* a CreateComment was refused on an absent paste while another paste has a comment
C9_Witness ==
    /\ last.op = "CreateComment"
    /\ last.err = ErrPasteNotFound
    /\ DOMAIN store.comment # {}

\* C10: a CreateComment whose commentID is already used by a comment of that
\* paste, whatever its parentID, returns ErrCommentExists and changes nothing,
\* so a paste never holds two comments with one id; both backends.
C10_CommentIdUnique ==
    [][(last'.op = "CreateComment"
          /\ \E c \in AllComments(backend, store) : c.PasteID = last'.id /\ c.ID = last'.val.comment)
         => (last'.err = ErrCommentExists /\ store' = store)]_vars

\* C11: ReadComments(pasteID) returns no error and a list that holds each
\* comment stored for that paste once and nothing else, in non-decreasing
\* order of PostDate; the list is empty when the paste has no comment or is
\* not stored.  Both backends.
C11_ReadComments ==
    last.op = "ReadComments" =>
        LET stored == {c \in AllComments(backend, store) : c.PasteID = last.id} IN
        /\ last.err = ErrNone
        /\ Range(last.val.list) = stored
        /\ Len(last.val.list) = Cardinality(stored)
        /\ \A i, j \in DOMAIN last.val.list :
              i < j => last.val.list[i].Meta.PostDate <= last.val.list[j].Meta.PostDate
        /\ (~PasteExistsOp(backend, store, last.id) => last.val.list = <<>>)

\* two comments came back, the one created second (with the lower PostDate) first
C11_Witness ==
    /\ last.op = "ReadComments"
    /\ Len(last.val.list) = 2
    /\ last.val.list[1].ID = 12 /\ last.val.list[2].ID = 11
    /\ last.val.list[1].Meta.PostDate < last.val.list[2].Meta.PostDate

\* C18: for every batch size N >= 0, GetExpiredPastes(N) returns at most N ids
\* and a Purge(N) call counts and deletes at most N pastes, on both backends.
C18_BoundedByBatchSize ==
    /\ last.op = "GetExpiredPastes" => Len(last.val.ids) <= last.val.n
    /\ last.op = "Purge" => (last.val.count <= last.val.n /\ last.val.deleted <= last.val.n)

\* the DeletePaste of a Purge call in progress removes the paste id in this step
PurgeRemoves(id) ==
    /\ id \in DOMAIN store.paste \ DOMAIN store'.paste
    /\ \E c \in DOMAIN calls :
          c.op = "Purge" /\ Head(c.ids) = id /\ CopiesIn(c, calls') < CopiesIn(c, calls)

\* C19: every paste that a Purge call deletes is expired at the moment it is
\* deleted, also when other callers delete and create that id between the
\* scan of the Purge and its DeletePaste.
C19_PurgeOnlyExpired ==
    [][\A id \in DOMAIN store.paste :
          PurgeRemoves(id) => IsExpired(DecodePaste(backend, id, store.paste[id]), now)]_vars

\* no stored paste is one that ReadPaste would report as expired, and the scan
\* finds nothing
Drained ==
    /\ \A id \in DOMAIN store.paste : ~IsExpired(DecodePaste(backend, id, store.paste[id]), now)
    /\ \A n \in BatchSizes : GetExpiredPastesOp(backend, store, now, n) = {<<>>}

\* C20: once no paste is created any more, repeated Purge(N) calls with N >= 1
\* remove every paste that ReadPaste would report as expired, and from then on
\* GetExpiredPastes returns the empty list.
C20_PurgeDrains == <>[]Drained

\* the salts other than salt whose decoding gives as many bytes as salt's, but
\* other ones
OtherKeys(salt) ==
    {s2 \in Salts : /\ ~DecodeString(s2).err
                     /\ Len(DecodeString(s2).bytes) = Len(DecodeString(salt).bytes)
                     /\ DecodeString(s2).bytes # DecodeString(salt).bytes}

C12_BurnServedOnce ==
    \A id \in DOMAIN hist.written :
        hist.written[id].paste.Meta.BurnAfterReading => hist.written[id].served <= 1

\* the stored paste 1 is burn-after-reading and was served to a read request
BurnServed ==
    /\ 1 \in DOMAIN hist.written
    /\ hist.written[1].paste.Meta.BurnAfterReading
    /\ hist.written[1].served >= 1

\* C13: once a burn-after-reading paste has been served to a read request,
\* the paste is eventually absent from storage (the goroutine that getPaste
\* started runs its DeletePaste).
C13_BurnEventuallyDeleted == BurnServed ~> ~PasteExistsOp(backend, store, 1)

\* C14: when the response with a burn-after-reading paste is sent, the paste
\* is already deleted from storage.
C14_BurnDeletedBeforeResponse ==
    (last.op = "getPaste" /\ last.err = StatusOK /\ last.val.burn)
        => ~PasteExistsOp(backend, store, last.id)

\* C16: a delete request changes storage only when it presents the token
\* derived from its paste id and the server's salt; a request for a well-formed
\* id with any other token is answered 403 and leaves every paste and comment
\* as it was.
C16_DeleteNeedsToken ==
    [][last'.op = "deletePaste" =>
          LET right == GenerateDeleteToken(last'.id, ServerSalt)
              presented == last'.val.deletetoken
              wrong == right.err \/ presented # right.token
          IN  /\ store' # store => ~wrong
              /\ (wrong /\ presented # EmptyToken /\ last'.id \in Ids)
                    => (last'.err = StatusForbidden /\ store' = store)]_vars

\* a delete request with the token of another salt was answered 403 for a
\* stored paste that has a comment
C16_Witness ==
    /\ last.op = "deletePaste"
    /\ last.err = StatusForbidden
    /\ last.val.deletetoken = GenerateDeleteToken(1, <<"A", "B", "B", "A">>).token
    /\ PasteExistsOp(backend, store, last.id)
    /\ \E c \in AllComments(backend, store) : c.PasteID = last.id

\* the requests whose adata array has the two flags as numbers: both 1, and
\* the other three combinations (with a valid ciphertext and formatter)
BothFlags == {req \in CreateRequests : req.adata = ADataOf("p", <<"1">>, <<"1">>)}
OtherFlags ==
    {req \in CreateRequests :
        /\ req.ct = <<"c", "1">>
        /\ \E d, b \in {<<"0">>, <<"1">>} :
              req.adata = ADataOf("p", d, b) /\ ~(d = <<"1">> /\ b = <<"1">>)}

\* C17: a creation request with burn-after-reading and discussion both enabled
\* is answered 400 and stores nothing; with any other combination of the two
\* flags it is accepted (or answered 409 when the generated id is taken); no
\* stored paste has both flags set.
C17_NoBurnWithDiscussion ==
    /\ [](\A id \in DOMAIN store.paste :
            LET p == DecodePaste(backend, id, store.paste[id]) IN
            ~(p.Meta.BurnAfterReading /\ p.Meta.OpenDiscussion))
    /\ [][last'.op = "createPaste" =>
            /\ last'.val.request \in BothFlags
                  => (last'.err = StatusBadRequest /\ store' = store)
            /\ last'.val.request \in OtherFlags
                  => IF last'.id \in DOMAIN store.paste
                     THEN last'.err = StatusConflict /\ store' = store
                     ELSE /\ last'.err = StatusOK
                          /\ last'.id \in DOMAIN store'.paste
                          /\ LET p == DecodePaste(backend, last'.id, store'.paste[last'.id]) IN
                             /\ (p.Meta.OpenDiscussion
                                   <=> last'.val.request.adata \in
                                         {ADataOf("p", <<"1">>, b) : b \in {<<"0">>, <<"1">>}})
                             /\ (p.Meta.BurnAfterReading
                                   <=> last'.val.request.adata \in
                                         {ADataOf("p", d, <<"1">>) : d \in {<<"0">>, <<"1">>}})]_vars

\* a request with both flags was refused while a burn-after-reading paste is stored
C17_Witness ==
    /\ last.op = "createPaste"
    /\ last.err = StatusBadRequest
    /\ last.val.request \in BothFlags
    /\ \E id \in DOMAIN store.paste :
          DecodePaste(backend, id, store.paste[id]).Meta.BurnAfterReading

\* C21: the count a Purge call returns is the number of pastes that this call
\* itself removed from storage, whatever other callers do between its scan
\* and its deletes.
C21_PurgeCountIsDeleted ==
    last.op = "Purge" => last.val.count = last.val.deleted

\* C22: CreatePaste calls of many callers with distinct ids all succeed (a
\* create on an id that is not stored returns nil and stores it, whatever the
\* other callers create in between), and every paste stored is then read
\* with the content its own caller wrote.
C22_ConcurrentCreates ==
    /\ [][(last'.op = "CreatePaste" /\ last'.id \notin DOMAIN store.paste)
            => (last'.err = ErrNone /\ last'.id \in DOMAIN store'.paste)]_vars
    /\ []((last.op = "ReadPaste" /\ DOMAIN store.paste = Ids)
            => (last.err = ErrNone /\ SameContent(last.val, hist.written[last.id].paste)))

\* C23: a GetValue that returns no error returns the value of the latest
\* SetValue of that (namespace, key) that returned nil, and the empty value
\* when there was none, on the filesystem and on every database dialect.
C23_LastWriterWins ==
    (last.op = "GetValue" /\ last.err = ErrNone)
        => last.val.value = Get(hist.set, last.val.key, <<>>)

\* C24: a SetValue of (ns1, k1) leaves what GetValue returns for every other
\* (namespace, key) as it was, and leaves every paste and comment as it was.
C24_NamespacesPartition ==
    [][last'.op = "SetValue" =>
          /\ \A k \in ValueKeys \ {last'.val.key} :
                GetValueOp(backend, store', k[1], k[2], "none").val
                    = GetValueOp(backend, store, k[1], k[2], "none").val
          /\ store'.paste = store.paste
          /\ store'.comment = store.comment]_vars

\* C25: every initialisation of the handler after the first one over the same
\* store leaves the handler with the secret the handler had before, so the
\* delete token of every id under the old secret validates under the new one.
C25_SecretReused ==
    [][(last'.op = "New" /\ Serving) =>
          /\ handler'.salt = handler.salt
          /\ \A id \in Ids :
                LET issued == GenerateDeleteToken(id, handler.salt) IN
                ~issued.err => ValidateDeleteToken(issued.token, id, handler'.salt)]_vars

\* C26: a creation request that is answered 200 carries a delete token that is
\* not empty and that validates for the returned id under the handler's
\* secret, whatever secret initSalt has left, the fallback included.
C26_TokenSurfaced ==
    (last.op = "createPaste" /\ last.err = StatusOK)
        => /\ last.val.deletetoken # EmptyToken
           /\ ValidateDeleteToken(last.val.deletetoken, last.id, handler.salt)

\* C27: a creation request generates at most 10 ids; a request whose 10
\* generated ids were all found stored is answered with an error; and a
\* request whose id is stored when CreatePaste runs is answered with an error
\* and leaves the stored paste as it is.
C27_RetryBounded ==
    /\ [](\A c \in DOMAIN calls : c.op = "createPaste" => c.attempts <= MaxAttempts)
    /\ [][last'.op = "createPaste" =>
            /\ last'.val.exhausted => last'.err # StatusOK
            /\ last'.id \in DOMAIN store.paste
                  => (last'.err = StatusConflict /\ store' = store)]_vars

\* C28: a read or delete request with a malformed paste id is answered 400 and
\* makes no storage call; no storage call of a comment request is passed a
\* malformed identifier; and a comment request whose paste id, or whose
\* non-empty parent id, is malformed is answered 400 before it has made any
\* storage call.
C28_MalformedRejected ==
    [][/\ (last'.op \in {"getPaste", "deletePaste"} /\ last'.id = MalformedId)
            => (last'.err = StatusBadRequest /\ store' = store /\ calls' = calls)
       /\ last'.op = "createComment" =>
            /\ \A r \in last'.val.reached : MalformedId \notin r.ids
            /\ (MalformedId \in {last'.val.request.pasteid, last'.val.request.parentid})
                  => (last'.err = StatusBadRequest /\ last'.val.reached = {})]_vars

C30_PasteExistsPure ==
    [][last'.op = "PasteExists" => (store' = store /\ calls' = calls)]_vars

\* the probe has found a paste that is expired and still stored, next to a
\* comment and a key-value entry
C30_Witness ==
    /\ last.op = "PasteExists" /\ last.val.exists
    /\ IsExpired(DecodePaste(backend, last.id, store.paste[last.id]), now)
    /\ store.comment # <<>>
    /\ store.config # <<>>

(***************************************************************************)
(* The instance's lock                                                     *)
(*                                                                         *)
(* Here a call takes the steps of its lock operations.  A caller is a      *)
(* goroutine with at most one call in progress:                            *)
(*   [caller, op, pc, id, paste, ids, count]                               *)
(* pc is "RLock" or "Lock" while the call waits to take rw.w or to be      *)
(* admitted as a reader, "read" or "deferred" while it holds the lock for  *)
(* reading, "wait" once it holds rw.w and waits for the readers to leave.  *)
(* sync.RWMutex admits no reader while a writer holds rw.w.                *)
(***************************************************************************)
MaxCallers == 3
Callers == 1..MaxCallers

RLock(m, c) == [m EXCEPT !.readers = @ \cup {c}]
RUnlock(m, c) == [m EXCEPT !.readers = @ \ {c}]
Lock(m, c) == [m EXCEPT !.w = c]
Unlock(m) == [m EXCEPT !.w = 0]

\* ReadPaste lets go of the read lock without releasing it
ReadPasteKeepsLock(m, c) == m

\* ReadPaste releases the read lock before it calls DeletePaste
ReadPasteReleases(m, c) == RUnlock(m, c)

CallOf(c) == {cl \in DOMAIN calls : cl.caller = c}
Idle(c) == CallOf(c) = {}
Call(c, op, pc, id, paste) ==
    [caller |-> c, op |-> op, pc |-> pc, id |-> id, paste |-> paste,
     ids |-> <<>>, count |-> 0]

\* a caller without a call in progress calls the instance
Begin(c) ==
    /\ Idle(c)
    /\ \E id \in Ids :
          calls' \in {Add(calls, Call(c, "CreatePaste", "Lock", id, paste)) : paste \in PasteInputs}
                     \cup {Add(calls, Call(c, "DeletePaste", "Lock", id, NoVal)),
                           Add(calls, Call(c, "ReadPaste", "RLock", id, NoVal)),
                           Add(calls, Call(c, "Purge", "RLock", 0, NoVal))}
    /\ last' = NoCall
    /\ UNCHANGED <<backend, univ, handler, mu, store, now, hist>>

\* mu.RLock(): admitted while no writer holds rw.w
AcquireRead(c) ==
    /\ \E cl \in CallOf(c) :
          /\ cl.pc \in {"RLock", "RLockAgain"}
          /\ mu.w = 0
          /\ mu' = RLock(mu, c)
          /\ calls' = Add(Remove(calls, cl),
                          [cl EXCEPT !.pc = IF cl.pc = "RLock" THEN "read" ELSE "deferred"])
    /\ last' = NoCall
    /\ UNCHANGED <<backend, univ, handler, store, now, hist>>

\* mu.Lock(): rw.w is taken first
AcquireWrite(c) ==
    /\ \E cl \in CallOf(c) :
          /\ cl.pc = "Lock"
          /\ mu.w = 0
          /\ mu' = Lock(mu, c)
          /\ calls' = Add(Remove(calls, cl), [cl EXCEPT !.pc = "wait"])
    /\ last' = NoCall
    /\ UNCHANGED <<backend, univ, handler, store, now, hist>>

\* the section of CreatePaste, once the readers have left, and its Unlock
LockedCreatePaste(c) ==
    /\ \E cl \in CallOf(c) :
          /\ cl.op = "CreatePaste" /\ cl.pc = "wait" /\ mu.readers = {}
          /\ LET r == CreatePasteOp(backend, store, cl.id, cl.paste) IN
             /\ store' = r.store
             /\ last' = Returned("CreatePaste", cl.id, r.err, cl.paste)
          /\ mu' = Unlock(mu)
          /\ calls' = Remove(calls, cl)
    /\ UNCHANGED <<backend, univ, handler, now, hist>>

\* the section of DeletePaste and its Unlock; as the call of a caller, as the
\* call that ReadPaste makes for an expired paste, and as the calls of Purge
LockedDeletePaste(c) ==
    /\ \E cl \in CallOf(c) :
          /\ cl.op # "CreatePaste" /\ cl.pc = "wait" /\ mu.readers = {}
          /\ \E f \in DeleteFaults(backend, store, IF cl.op = "Purge" THEN Head(cl.ids) ELSE cl.id) :
                LET id == IF cl.op = "Purge" THEN Head(cl.ids) ELSE cl.id
                    r == DeletePasteOp(backend, store, id, f)
                    stop == PurgeStops(r.err)
                    count == IF stop THEN cl.count ELSE cl.count + 1
                IN
                /\ store' = r.store
                /\ mu' = Unlock(mu)
                /\ CASE cl.op = "DeletePaste" ->
                          /\ last' = Returned("DeletePaste", id, r.err, NoVal)
                          /\ calls' = Remove(calls, cl)
                     [] cl.op = "ReadPaste" ->
                          /\ last' = NoCall
                          /\ calls' = Add(Remove(calls, cl), [cl EXCEPT !.pc = "RLockAgain"])
                     [] cl.op = "Purge" /\ (stop \/ Tail(cl.ids) = <<>>) ->
                          /\ last' = Returned("Purge", 0, IF stop THEN r.err ELSE ErrNone,
                                              [n |-> 2, count |-> count])
                          /\ calls' = Remove(calls, cl)
                     [] OTHER ->
                          /\ last' = NoCall
                          /\ calls' = Add(Remove(calls, cl),
                                          [cl EXCEPT !.pc = "Lock", !.ids = Tail(@),
                                                     !.count = count])
    /\ UNCHANGED <<backend, univ, handler, now, hist>>

\* the section of ReadPaste under the read lock: the deferred RUnlock on a
\* return, the RUnlock before DeletePaste when the paste is expired
LockedReadPaste(c) ==
    /\ \E cl \in CallOf(c) :
          /\ cl.op = "ReadPaste" /\ cl.pc = "read"
          /\ IF ~PasteExistsOp(backend, store, cl.id)
             THEN /\ last' = Returned("ReadPaste", cl.id, ErrPasteNotFound, NoVal)
                  /\ mu' = RUnlock(mu, c)
                  /\ calls' = Remove(calls, cl)
             ELSE LET paste == DecodePaste(backend, cl.id, store.paste[cl.id]) IN
                  IF IsExpired(paste, now)
                  THEN /\ last' = NoCall
                       /\ mu' = ReadPasteReleases(mu, c)
                       /\ calls' = Add(Remove(calls, cl), [cl EXCEPT !.pc = "Lock"])
                  ELSE /\ last' = Returned("ReadPaste", cl.id, ErrNone, paste)
                       /\ mu' = RUnlock(mu, c)
                       /\ calls' = Remove(calls, cl)
    /\ UNCHANGED <<backend, univ, handler, store, now, hist>>

\* ReadPaste returns ErrPasteExpired and its deferred RUnlock runs
LockedReadPasteReturn(c) ==
    /\ \E cl \in CallOf(c) :
          /\ cl.op = "ReadPaste" /\ cl.pc = "deferred"
          /\ last' = Returned("ReadPaste", cl.id, ErrPasteExpired, NoVal)
          /\ mu' = RUnlock(mu, c)
          /\ calls' = Remove(calls, cl)
    /\ UNCHANGED <<backend, univ, handler, store, now, hist>>

\* the GetExpiredPastes of Purge under the read lock, and its RUnlock
LockedGetExpiredPastes(c) ==
    /\ \E cl \in CallOf(c) :
          /\ cl.op = "Purge" /\ cl.pc = "read"
          /\ mu' = RUnlock(mu, c)
          /\ \E ids \in GetExpiredPastesOp(backend, store, now, 2) :
                IF ids = <<>>
                THEN /\ last' = Returned("Purge", 0, ErrNone, [n |-> 2, count |-> 0])
                     /\ calls' = Remove(calls, cl)
                ELSE /\ last' = NoCall
                     /\ calls' = Add(Remove(calls, cl), [cl EXCEPT !.pc = "Lock", !.ids = ids])
    /\ UNCHANGED <<backend, univ, handler, store, now, hist>>

\* the steps of the call that caller c has in progress
Proceed(c) ==
    \/ AcquireRead(c)
    \/ AcquireWrite(c)
    \/ LockedCreatePaste(c)
    \/ LockedDeletePaste(c)
    \/ LockedReadPaste(c)
    \/ LockedReadPasteReturn(c)
    \/ LockedGetExpiredPastes(c)

NextLocks ==
    \/ Tick
    \/ \E c \in Callers : Begin(c)
    \/ \E c \in Callers : AcquireRead(c)
    \/ \E c \in Callers : AcquireWrite(c)
    \/ \E c \in Callers : LockedCreatePaste(c)
    \/ \E c \in Callers : LockedDeletePaste(c)
    \/ \E c \in Callers : LockedReadPaste(c)
    \/ \E c \in Callers : LockedReadPasteReturn(c)
    \/ \E c \in Callers : LockedGetExpiredPastes(c)

InitLocks == InitIn("locks")

\* the Go scheduler runs every goroutine that can run; a reader that waits
\* is admitted when the writer unlocks, and sync.Mutex hands rw.w to a
\* waiter that has waited long enough, so a call that can take the lock
\* again and again does take it
FairLocks == \A c \in Callers : SF_<<mu, calls>>(Proceed(c))

SpecLocks == InitLocks /\ [][NextLocks]_vars /\ FairLocks

\* C31: under fair scheduling every call of every caller returns, and the
\* callers without a call in progress hold no lock: the lock is held only
\* from inside a section, through the expired read (release, DeletePaste,
\* lock again) and through the DeletePaste calls of Purge.
C31_EveryCallReturns ==
    /\ \A c \in Callers : (~Idle(c)) ~> Idle(c)
    /\ [](\A c \in Callers : Idle(c) => c \notin mu.readers /\ mu.w # c)

\* an expired read has released the read lock and waits behind a reader for
\* its DeletePaste, while a third caller waits to be admitted as a reader
C31_Witness ==
    /\ \E c \in Callers : \E cl \in CallOf(c) : cl.op = "ReadPaste" /\ cl.pc = "wait"
    /\ mu.readers # {}
    /\ \E c \in Callers : \E cl \in CallOf(c) : cl.pc = "RLock"

(***************************************************************************)
(* internal/util/id.go: the format of an identifier                        *)
(*                                                                         *)
(* Here a string is the sequence of its bytes, each a number: 48..57 are   *)
(* the digits, 97..102 are 'a'..'f', 10 is the line feed.                  *)
(***************************************************************************)
IDLength == 16

\* [a-f0-9]
InClass(b) == (b >= 97 /\ b <= 102) \/ (b >= 48 /\ b <= 57)

\* '$' where it also matches before a line feed that ends the text
EndBeforeFinalNewline(s, i) == i = Len(s) + 1 \/ (i = Len(s) /\ s[i] = 10)

\* '$' of regexp without the flag m: the end of the text only
EndOfText(s, i) == i = Len(s) + 1

\* idPattern.MatchString(s) for `^[a-f0-9]{16}$`: a match begins at some
\* position, '^' asks for the first one, the class is read IDLength times,
\* and '$' is asked of the position after them
MatchString(s) ==
    \E i \in 1..(Len(s) + 1) :
        /\ i = 1
        /\ i + IDLength <= Len(s) + 1
        /\ \A k \in i..(i + IDLength - 1) : InClass(s[k])
        /\ EndOfText(s, i + IDLength)

ValidateID(id) == MatchString(id)

\* "f468483c313401e8", "0000000000000000" and "abcdef0123456789"
WellFormedIds ==
    {<<102, 52, 54, 56, 52, 56, 51, 99, 51, 49, 51, 52, 48, 49, 101, 56>>,
     [i \in 1..16 |-> 48],
     <<97, 98, 99, 100, 101, 102, 48, 49, 50, 51, 52, 53, 54, 55, 56, 57>>}

\* the bytes next to the ranges of the class ('/', ':', '`', 'g'), upper
\* case, a path separator and dots, a space, a line feed, a quote, a byte of
\* a multi-byte character, and bytes of the class
OtherBytes == {47, 58, 96, 103, 65, 70, 46, 32, 10, 39, 195, 48, 57, 97, 102}

\* a well-formed identifier, and the strings one edit away from it: a byte
\* replaced, removed or inserted; the empty string
IdStrings ==
    WellFormedIds \cup {<<>>}
    \cup {[s EXCEPT ![i] = b] : s \in WellFormedIds, i \in 1..IDLength, b \in OtherBytes}
    \cup {SubSeq(s, 1, i - 1) \o SubSeq(s, i + 1, Len(s)) : s \in WellFormedIds, i \in {1, 8, IDLength}}
    \cup {SubSeq(s, 1, i) \o <<b>> \o SubSeq(s, i + 1, Len(s)) :
              s \in WellFormedIds, i \in {0, 8, IDLength}, b \in OtherBytes}

\* one call of ValidateID
ValidateIDCall ==
    /\ \E c \in DOMAIN calls :
          /\ c.op = "ValidateID"
          /\ calls' = Remove(calls, c)
          /\ last' = Returned("ValidateID", 0, ErrNone, [id |-> c.id, valid |-> ValidateID(c.id)])
    /\ UNCHANGED <<backend, univ, handler, mu, store, now, hist>>

NextIds == ValidateIDCall

InitIds ==
    /\ backend = "Database"
    /\ univ = "ids"
    /\ handler = [salt |-> ServerSalt, discussion |-> TRUE]
    /\ mu = Unlocked
    /\ store = EmptyStore
    /\ now = 1
    /\ calls \in {SetToBag({[op |-> "ValidateID", id |-> s]}) : s \in IdStrings}
    /\ last = NoCall
    /\ hist = [written |-> <<>>, set |-> <<>>]

SpecIds == InitIds /\ [][NextIds]_vars

\* C32: ValidateID answers true for a string exactly when the string has 16
\* characters and each of them is one of 0-9 and a-f; for every other string
\* (another length, upper case, other characters, a path separator, a line
\* feed at the end) it answers false.
C32_ValidateIdExact ==
    last.op = "ValidateID" =>
        (last.val.valid <=>
            /\ Len(last.val.id) = 16
            /\ \A i \in 1..Len(last.val.id) :
                  last.val.id[i] \in {48, 49, 50, 51, 52, 53, 54, 55, 56, 57,
                                      97, 98, 99, 100, 101, 102})

\* a well-formed identifier was accepted
C32_Witness ==
    /\ last.op = "ValidateID"
    /\ last.val.valid
    /\ last.val.id \in WellFormedIds

(***************************************************************************)
(* internal/util/crypto.go: how long the comparison of a token takes       *)
(*                                                                         *)
(* Here a token is the string of its hex digits, and a digit is 0 or 1.    *)
(* The time of a comparison is the number of digit pairs it reads.         *)
(***************************************************************************)
MaxTokenLen == 4

\* hex.EncodeToString of the digest: three digits stand for the 64, other
\* digits for another paste id
EncodeToString(token) == IF token.hex[2] = 1 THEN <<0, 1, 1>> ELSE <<1, 1, 0>>

\* a comparison that returns at the first pair of digits that differ
RECURSIVE CompareLoopShortCircuit(_, _, _, _)
CompareLoopShortCircuit(x, y, i, v) ==
    IF i > Len(x) THEN [v |-> v, steps |-> Len(x)]
    ELSE IF x[i] # y[i] THEN [v |-> 1, steps |-> i]
    ELSE CompareLoopShortCircuit(x, y, i + 1, v)

\* the loop of subtle.ConstantTimeCompare: v |= x[i] ^ y[i] for every i
RECURSIVE CompareLoop(_, _, _, _)
CompareLoop(x, y, i, v) ==
    IF i > Len(x) THEN [v |-> v, steps |-> Len(x)]
    ELSE LET xor == (x[i] + y[i]) % 2
             or == IF v = 1 \/ xor = 1 THEN 1 ELSE 0
         IN  CompareLoop(x, y, i + 1, or)

\* subtle.ConstantTimeCompare(x, y): 0 at once when the lengths differ
ConstantTimeCompare(x, y) ==
    IF Len(x) # Len(y) THEN [result |-> 0, steps |-> 0]
    ELSE LET r == CompareLoop(x, y, 1, 0)
         IN  [result |-> IF r.v = 0 THEN 1 ELSE 0, steps |-> r.steps]

\* ValidateDeleteToken with the digits of both tokens
ValidateDeleteTokenTimed(providedToken, pasteID, salt) ==
    LET expectedToken == GenerateDeleteToken(pasteID, salt) IN
    IF expectedToken.err THEN [valid |-> FALSE, steps |-> 0]
    ELSE LET r == ConstantTimeCompare(providedToken, EncodeToString(expectedToken.token))
         IN  [valid |-> r.result = 1, steps |-> r.steps]

PresentedStrings == UNION {[1..n -> {0, 1}] : n \in 0..MaxTokenLen}

\* the number of leading digits of a presented token that are correct
RECURSIVE LeadingCorrect(_, _)
LeadingCorrect(x, y) ==
    IF x = <<>> \/ y = <<>> \/ Head(x) # Head(y) THEN 0
    ELSE 1 + LeadingCorrect(Tail(x), Tail(y))

\* two requests present their tokens for one paste; val records both runs
ValidateTwoTokens ==
    /\ \E c \in DOMAIN calls :
          /\ c.op = "TwoTokens"
          /\ calls' = Remove(calls, c)
          /\ last' = Returned("ValidateDeleteToken", c.id, ErrNone,
                [first |-> c.first, second |-> c.second,
                 expected |-> EncodeToString(GenerateDeleteToken(c.id, handler.salt).token),
                 runs |-> <<ValidateDeleteTokenTimed(c.first, c.id, handler.salt),
                            ValidateDeleteTokenTimed(c.second, c.id, handler.salt)>>])
    /\ UNCHANGED <<backend, univ, handler, mu, store, now, hist>>

NextTiming == ValidateTwoTokens

InitTiming ==
    /\ backend = "Database"
    /\ univ = "timing"
    /\ handler = [salt |-> ServerSalt, discussion |-> TRUE]
    /\ mu = Unlocked
    /\ store = EmptyStore
    /\ now = 1
    /\ calls \in {SetToBag({[op |-> "TwoTokens", id |-> id, first |-> t1, second |-> t2]}) :
                      id \in TokenIds, t1 \in PresentedStrings, t2 \in PresentedStrings}
    /\ last = NoCall
    /\ hist = [written |-> <<>>, set |-> <<>>]

SpecTiming == InitTiming /\ [][NextTiming]_vars

\* C33: validation compares in constant time: two presented tokens of one
\* length take the same number of comparison steps for one paste, however
\* many of their leading characters are correct, and a token is valid
\* exactly when it is the expected one.
C33_ConstantTime ==
    last.op = "ValidateDeleteToken" /\ univ = "timing" =>
        /\ Len(last.val.first) = Len(last.val.second)
              => last.val.runs[1].steps = last.val.runs[2].steps
        /\ \A k \in 1..2 :
              last.val.runs[k].valid <=>
                  (IF k = 1 THEN last.val.first ELSE last.val.second) = last.val.expected

\* two tokens as long as the expected one were compared, one with no correct
\* leading character, one with all but the last correct
C33_Witness ==
    /\ last.op = "ValidateDeleteToken" /\ univ = "timing"
    /\ Len(last.val.first) = Len(last.val.expected)
    /\ Len(last.val.second) = Len(last.val.expected)
    /\ LeadingCorrect(last.val.first, last.val.expected) = 0
    /\ LeadingCorrect(last.val.second, last.val.expected) = Len(last.val.expected) - 1

\* the DeletePaste of an expired ReadPaste(id) in progress removes the paste
\* id in this step
ReadPasteRemoves(id) ==
    /\ id \in DOMAIN store.paste \ DOMAIN store'.paste
    /\ \E d \in DOMAIN calls' :
          /\ d.op = "ReadPaste" /\ d.pc = "return" /\ d.id = id
          /\ CopiesIn(d, calls') > CopiesIn(d, calls)

\* C34: the delete of an expired ReadPaste removes only an expired record:
\* a paste that other callers stored under the id after the expiry check,
\* and that is not expired, is still stored after the delete.
C34_ExpiredReadDeletesOnlyExpired ==
    [][\A id \in DOMAIN store.paste :
          ReadPasteRemoves(id) => IsExpired(DecodePaste(backend, id, store.paste[id]), now)]_vars

\* C35: read-time and purge-time expiry agree: when GetExpiredPastes has
\* returned with a batch size that no list reaches, a stored paste is one
\* that ReadPaste reports as expired at that clock value exactly if the list
\* holds its id, also for a negative timestamp and for expire = now.
C35_ReadAndScanAgree ==
    last.op = "GetExpiredPastes" /\ last.val.n >= Cardinality(Ids) =>
        \A id \in DOMAIN store.paste :
            IsExpired(DecodePaste(backend, id, store.paste[id]), now)
                <=> id \in Range(last.val.ids)

\* C36: in a purge, a DeletePaste that returns nil or ErrPasteNotFound
\* counts as success and the batch goes on (or ends without error after the
\* last id); any other error ends the Purge at once, which returns that
\* error with the count reached so far and deletes none of the remaining ids.
C36_PurgeToleratesNotFound ==
    [][\A c \in DOMAIN calls :
          c.op = "Purge" /\ CopiesIn(c, calls') < CopiesIn(c, calls) =>
              \E f \in DeleteFaults(backend, store, Head(c.ids)) :
                  LET r == DeletePasteOp(backend, store, Head(c.ids), f) IN
                  /\ store' = r.store
                  /\ IF r.err \in {ErrNone, ErrPasteNotFound}
                     THEN IF Tail(c.ids) = <<>>
                          THEN /\ last'.op = "Purge" /\ last'.err = ErrNone
                               /\ last'.val.count = c.count + 1
                          ELSE /\ last' = NoCall
                               /\ \E d \in DOMAIN calls' :
                                     /\ d.op = "Purge" /\ d.ids = Tail(c.ids)
                                     /\ d.count = c.count + 1
                                     /\ CopiesIn(d, calls') > CopiesIn(d, calls)
                     ELSE /\ last'.op = "Purge" /\ last'.err = r.err
                          /\ last'.val.count = c.count
                          /\ BagCardinality(calls') < BagCardinality(calls)
                          /\ \A id \in Range(Tail(c.ids)) :
                                id \in DOMAIN store.paste => id \in DOMAIN store'.paste]_vars

\* a Purge of two ids has returned an error after one id: the DeletePaste
\* of its first id had found nothing and was counted, the second one failed
\* and its paste is still stored
C36_Witness ==
    /\ last.op = "Purge" /\ last.err = ErrStorage
    /\ last.val.count = 1 /\ last.val.deleted = 0
    /\ store.paste # <<>>

\* discussions are enabled globally, and the paste id is stored, not
\* expired, with discussion enabled and not burn-after-reading
Commentable(id) ==
    /\ handler.discussion
    /\ PasteExistsOp(backend, store, id)
    /\ LET paste == DecodePaste(backend, id, store.paste[id]) IN
       /\ ~IsExpired(paste, now)
       /\ paste.Meta.OpenDiscussion
       /\ ~paste.Meta.BurnAfterReading

\* C37: when a comment request is answered, a comment has been stored only
\* if at that moment discussions are enabled globally and the paste of the
\* request is stored, not expired, has discussion enabled and is not
\* burn-after-reading; a request with well-formed identifiers and data for
\* which this is not so is answered 403 or 404 and stores no comment.
C37_CommentOnlyWhenAllowed ==
    [][last'.op = "createComment" =>
          LET req == last'.val.request
              wellFormed == /\ req.pasteid \notin {NoId, MalformedId}
                            /\ req.parentid # MalformedId
                            /\ req.data # <<>>
          IN  /\ store'.comment # store.comment => Commentable(req.pasteid)
              /\ wellFormed /\ ~Commentable(req.pasteid)
                    => /\ last'.err \in {StatusForbidden, StatusNotFound}
                       /\ store'.comment = store.comment]_vars

\* C38: whenever a comment is stored, its parent identifier is the id of its
\* paste or the id of a comment that was already stored under that paste.
C38_ParentIsStored ==
    [][\A c \in AllComments(backend, store') \ AllComments(backend, store) :
          \/ c.ParentID = c.PasteID
          \/ \E d \in AllComments(backend, store) :
                d.PasteID = c.PasteID /\ d.ID = c.ParentID]_vars

(***************************************************************************)
(* Filesystem: the steps of a write                                        *)
(*                                                                         *)
(* Here store holds the files of the Filesystem backend by path, each      *)
(* [content, torn]: torn says that the file holds only a part of the       *)
(* bytes of content.  A call that writes is                                *)
(*   [op, area, path, data, pc]                                            *)
(* with area the field of store its path is in and pc "write" or           *)
(* "rename".  The lock is held from the first step of a call to its last,  *)
(* so one call is in progress at most.  A crash ends the process: the call *)
(* in progress is gone, the files stay.                                    *)
(***************************************************************************)
File(content, torn) == [content |-> content, torn |-> torn]

\* a write that goes to the final path itself
TmpIsPath(path) == path

\* tmpPath := path + ".tmp"
TmpPathOf(path) == path \o <<".tmp">>

\* the bytes json.Marshal(storageData) gives for a paste and for a comment
PasteFileOf(id, paste) == FsCreatePaste(EmptyStore, id, paste).store.paste[id]
CommentFileOf(comment) ==
    LET held == [EmptyStore EXCEPT !.paste = (1 :> PasteFileOf(1, Content1(0)))]
    IN  FsCreateComment(held, 1, 1, 11, comment).store.comment[FsCommentPath(1, 1, 11)]

InProgress(op, area, path, data) ==
    SetToBag({[op |-> op, area |-> area, path |-> path, data |-> data, pc |-> "write"]})

\* Filesystem.CreatePaste up to the temporary file
FsCreatePasteBegin ==
    /\ calls = EmptyBag
    /\ \E id \in Ids, paste \in PasteInputs :
          IF <<id>> \in DOMAIN store.paste
          THEN /\ last' = Returned("CreatePaste", id, ErrPasteExists, NoVal)
               /\ UNCHANGED calls
          ELSE /\ calls' = InProgress("CreatePaste", "paste", <<id>>, PasteFileOf(id, paste))
               /\ last' = NoCall
    /\ UNCHANGED <<backend, univ, handler, mu, store, now, hist>>

\* Filesystem.CreateComment up to the temporary file
FsCreateCommentBegin ==
    /\ calls = EmptyBag
    /\ \E pasteID \in Ids, commentID \in CommentIds, comment \in CommentInputs :
          LET path == FsCommentPath(pasteID, pasteID, commentID) IN
          IF <<pasteID>> \notin DOMAIN store.paste
          THEN /\ last' = Returned("CreateComment", pasteID, ErrPasteNotFound, NoVal)
               /\ UNCHANGED calls
          ELSE IF path \in DOMAIN store.comment
          THEN /\ last' = Returned("CreateComment", pasteID, ErrCommentExists, NoVal)
               /\ UNCHANGED calls
          ELSE /\ calls' = InProgress("CreateComment", "comment", path, CommentFileOf(comment))
               /\ last' = NoCall
    /\ UNCHANGED <<backend, univ, handler, mu, store, now, hist>>

\* Filesystem.SetValue up to the temporary file
FsSetValueBegin ==
    /\ calls = EmptyBag
    /\ \E k \in ValueKeys, value \in Values :
          calls' = InProgress("SetValue", "config", configPath(k[1], k[2]), value)
    /\ last' = NoCall
    /\ UNCHANGED <<backend, univ, handler, mu, store, now, hist>>

\* what FileAt gives for a path without a file
Absent == [content |-> <<>>, torn |-> FALSE, absent |-> TRUE]

\* the file at a path; the files after one was written or removed
FileAt(st, area, path) ==
    IF path \in DOMAIN st[area] THEN st[area][path] ELSE Absent
Put(st, area, path, file) ==
    [st EXCEPT ![area] = (path :> file) @@ st[area]]
Removed(st, area, path) ==
    [st EXCEPT ![area] = Restrict(st[area], DOMAIN st[area] \ {path})]

\* os.WriteFile(tmpPath, data): all bytes are written; or it fails after it
\* has truncated the file and written a part of them, or before it has
\* opened the file; the error is returned and the file is left
FsWriteFile ==
    /\ \E c \in DOMAIN calls :
          /\ c.pc = "write"
          /\ \/ /\ store' = Put(store, c.area, TmpPathOf(c.path), File(c.data, FALSE))
                /\ calls' = SetToBag({[c EXCEPT !.pc = "rename"]})
                /\ last' = NoCall
             \/ /\ store' \in {store, Put(store, c.area, TmpPathOf(c.path), File(c.data, TRUE))}
                /\ calls' = EmptyBag
                /\ last' = Returned(c.op, 0, ErrStorage, [path |-> c.path, data |-> c.data])
    /\ UNCHANGED <<backend, univ, handler, mu, now, hist>>

\* os.Rename(tmpPath, path) replaces path in one step; when it fails the
\* temporary file is removed and the error is returned
FsRename ==
    /\ \E c \in DOMAIN calls :
          /\ c.pc = "rename"
          /\ calls' = EmptyBag
          /\ \/ /\ store' = Removed(Put(store, c.area, c.path,
                                        FileAt(store, c.area, TmpPathOf(c.path))),
                                    c.area, TmpPathOf(c.path))
                /\ last' = Returned(c.op, 0, ErrNone, [path |-> c.path, data |-> c.data])
             \/ /\ store' = Removed(store, c.area, TmpPathOf(c.path))
                /\ last' = Returned(c.op, 0, ErrStorage, [path |-> c.path, data |-> c.data])
    /\ UNCHANGED <<backend, univ, handler, mu, now, hist>>

\* the process ends while a call is in progress: during WriteFile (a part
\* of the bytes is in the temporary file), or between two of its steps
Crash ==
    /\ \E c \in DOMAIN calls :
          /\ store' \in {store} \cup
                 (IF c.pc = "write"
                  THEN {Put(store, c.area, TmpPathOf(c.path), File(c.data, TRUE))}
                  ELSE {})
          /\ last' = Returned("crash", 0, ErrNone, [path |-> c.path, data |-> c.data])
    /\ calls' = EmptyBag
    /\ UNCHANGED <<backend, univ, handler, mu, now, hist>>

NextCrash ==
    \/ FsCreatePasteBegin
    \/ FsCreateCommentBegin
    \/ FsSetValueBegin
    \/ FsWriteFile
    \/ FsRename
    \/ Crash

InitCrash ==
    /\ InitIn("crash")
    /\ backend = "Filesystem"

SpecCrash == InitCrash /\ [][NextCrash]_vars

NoFault == [fault |-> "none", removed |-> {}]

\* SELECT 1 FROM comment WHERE dataid = ? AND pasteid = ?
DbCommentExists(st, pasteID, parentID, commentID) ==
    commentID \in DOMAIN st.comment /\ st.comment[commentID].pasteid = pasteID

\* os.Stat(commentPath(pasteID, parentID, commentID))
FsCommentExists(st, pasteID, parentID, commentID) ==
    FsCommentPath(pasteID, parentID, commentID) \in DOMAIN st.comment

CommentExistsOp(b, st, pasteID, parentID, commentID) ==
    IF b = "Database" THEN DbCommentExists(st, pasteID, parentID, commentID)
    ELSE FsCommentExists(st, pasteID, parentID, commentID)

\* ReadPaste by one caller: the expired paste is deleted inside the call
ReadPasteOp(b, st, id, t) ==
    IF ~PasteExistsOp(b, st, id) THEN Ret(st, ErrPasteNotFound, NoVal)
    ELSE LET paste == DecodePaste(b, id, st.paste[id]) IN
         IF IsExpired(paste, t)
         THEN Ret(DeletePasteOp(b, st, id, NoFault).store, ErrPasteExpired, NoVal)
         ELSE Ret(st, ErrNone, paste)

\* what the caller sees of a call: the error and the value, not the store
Seen(r) == [err |-> r.err, val |-> r.val]

\* both instances after a call, and what is recorded of it
OnBoth(op, id, args, db, fs) ==
    /\ store' = [Database |-> db.store, Filesystem |-> fs.store]
    /\ last' = Returned(op, id, ErrNone, [args |-> args, db |-> Seen(db), fs |-> Seen(fs)])
    /\ UNCHANGED <<backend, univ, handler, mu, now, calls, hist>>

BothCreatePaste ==
    \E id \in Ids, paste \in PasteInputs :
        OnBoth("CreatePaste", id, [paste |-> paste],
               DbCreatePaste(store.Database, id, paste),
               FsCreatePaste(store.Filesystem, id, paste))

BothReadPaste ==
    \E id \in Ids :
        OnBoth("ReadPaste", id, NoVal,
               ReadPasteOp("Database", store.Database, id, now),
               ReadPasteOp("Filesystem", store.Filesystem, id, now))

BothDeletePaste ==
    \E id \in Ids :
        OnBoth("DeletePaste", id, NoVal,
               DeletePasteOp("Database", store.Database, id, NoFault),
               DeletePasteOp("Filesystem", store.Filesystem, id, NoFault))

BothPasteExists ==
    \E id \in Ids :
        OnBoth("PasteExists", id, NoVal,
               Ret(store.Database, ErrNone, [exists |-> DbPasteExists(store.Database, id)]),
               Ret(store.Filesystem, ErrNone, [exists |-> FsPasteExists(store.Filesystem, id)]))

BothCreateComment ==
    \E pasteID \in Ids, commentID \in CommentIds, comment \in CommentInputs :
      \E parentID \in ParentIds(pasteID) :
        LET db == DbCreateComment(store.Database, pasteID, parentID, commentID, comment)
            fs == FsCreateComment(store.Filesystem, pasteID, parentID, commentID, comment)
        IN  /\ Cardinality(DOMAIN db.store.comment) <= MaxComments
            /\ Cardinality(DOMAIN fs.store.comment) <= MaxComments
            /\ OnBoth("CreateComment", pasteID,
                      [parent |-> parentID, comment |-> commentID], db, fs)

BothCommentExists ==
    \E pasteID \in Ids, commentID \in CommentIds :
      \E parentID \in ParentIds(pasteID) :
        OnBoth("CommentExists", pasteID, [parent |-> parentID, comment |-> commentID],
               Ret(store.Database, ErrNone,
                   [exists |-> DbCommentExists(store.Database, pasteID, parentID, commentID)]),
               Ret(store.Filesystem, ErrNone,
                   [exists |-> FsCommentExists(store.Filesystem, pasteID, parentID, commentID)]))

\* val holds the lists that each instance can return
BothReadComments ==
    \E id \in Ids :
        OnBoth("ReadComments", id, NoVal,
               Ret(store.Database, ErrNone, [lists |-> DbReadComments(store.Database, id)]),
               Ret(store.Filesystem, ErrNone, [lists |-> FsReadComments(store.Filesystem, id)]))

BothGetExpiredPastes ==
    \E n \in BatchSizes :
        OnBoth("GetExpiredPastes", 0, [n |-> n],
               Ret(store.Database, ErrNone,
                   [lists |-> DbGetExpiredPastes(store.Database, now, n)]),
               Ret(store.Filesystem, ErrNone,
                   [lists |-> FsGetExpiredPastes(store.Filesystem, now, n)]))

NextEquiv ==
    \/ Tick
    \/ BothCreatePaste
    \/ BothReadPaste
    \/ BothDeletePaste
    \/ BothPasteExists
    \/ BothCreateComment
    \/ BothCommentExists
    \/ BothReadComments
    \/ BothGetExpiredPastes

InitEquiv ==
    /\ backend = "Database"
    /\ univ = "equiv"
    /\ handler = [salt |-> ServerSalt, discussion |-> TRUE]
    /\ mu = Unlocked
    /\ store = [Database |-> EmptyStore, Filesystem |-> EmptyStore]
    /\ now = 1
    /\ calls = EmptyBag
    /\ last = NoCall
    /\ hist = [written |-> <<>>, set |-> <<>>]

SpecEquiv == InitEquiv /\ [][NextEquiv]_vars

\* C40: the two backends are observationally equivalent: after any sequence
\* of Storage calls passed to both with the same arguments and clock, each
\* call returns the same error and result on both; where the result is a
\* list whose order a backend leaves open, every list the filesystem can
\* return is one the database can return.  This includes CommentExists and
\* CreateComment for an id stored under another parent or paste, and the
\* scan with batch size 0.
C40_BackendsEquivalent ==
    last.op \in {"CreatePaste", "ReadPaste", "DeletePaste", "PasteExists",
                 "CreateComment", "CommentExists", "ReadComments", "GetExpiredPastes"} =>
        /\ last.val.db.err = last.val.fs.err
        /\ IF last.op \in {"ReadComments", "GetExpiredPastes"}
           THEN last.val.fs.val.lists \subseteq last.val.db.val.lists
           ELSE last.val.db.val = last.val.fs.val

====
